---- MODULE Spec2Model ----
(***************************************************************************)
(* The KV indexing and query engine of the worker (worker/src/kv): the     *)
(* key schema, the tokenizer, the type registry, single-record CRUD with   *)
(* derived-index maintenance, and the query executor, over a primitive     *)
(* key-value store.                                                        *)
(*                                                                         *)
(* A JavaScript string is a sequence of one-character strings, so that     *)
(* truncation, tokenization, key concatenation, prefix scans and           *)
(* lexicographic key order are computed and not assumed.                   *)
(***************************************************************************)
EXTENDS Integers, Sequences, FiniteSets, TLC

VARIABLES kv, now, last, calls, faults

vars == <<kv, now, last, calls, faults>>

----------------------------------------------------------------------------
(* Characters and strings *)

Range(s) == {s[i] : i \in 1..Len(s)}

Min(a, b) == IF a < b THEN a ELSE b

LowerChars == <<"a", "b", "c", "d", "e", "f", "g", "h", "i", "j", "k", "l", "m", "n", "o", "p", "q", "r", "s", "t", "u", "v", "w", "x", "y", "z">>

UpperChars == <<"A", "B", "C", "D", "E", "F", "G", "H", "I", "J", "K", "L", "M", "N", "O", "P", "Q", "R", "S", "T", "U", "V", "W", "X", "Y", "Z">>

DigitChars == <<"0", "1", "2", "3", "4", "5", "6", "7", "8", "9">>

\* The characters of the model in ASCII order (the order of JS string comparison
\* and of the store's key listing).
AsciiOrder == <<" ", "!", ",", "-", ".">> \o DigitChars \o <<":">> \o UpperChars \o <<"_">> \o LowerChars

CharCode == [c \in Range(AsciiOrder) |-> CHOOSE i \in 1..Len(AsciiOrder) : AsciiOrder[i] = c]

\* the first position at which a and b differ, 0 if one is a prefix of the other
FirstDifference(a, b) ==
    IF \A i \in 1..Min(Len(a), Len(b)) : a[i] = b[i] THEN 0
    ELSE CHOOSE i \in 1..Min(Len(a), Len(b)) : a[i] # b[i] /\ \A j \in 1..(i - 1) : a[j] = b[j]

\* a < b as JS strings (and as store keys): by the first character that
\* differs, a proper prefix before the longer string
LessAt(a, b, i) == IF i = 0 THEN Len(a) < Len(b) ELSE CharCode[a[i]] < CharCode[b[i]]

LexLess(a, b) == LessAt(a, b, FirstDifference(a, b))

\* s.startsWith(p)
StartsWith(s, p) == Len(p) <= Len(s) /\ SubSeq(s, 1, Len(p)) = p

\* s.substring(0, n)
Substring0(s, n) == SubSeq(s, 1, Min(n, Len(s)))

LowerOf == [c \in Range(UpperChars) |-> LowerChars[CHOOSE i \in 1..26 : UpperChars[i] = c]]

\* s.toLowerCase()
toLowerCase(s) == [i \in 1..Len(s) |-> IF s[i] \in DOMAIN LowerOf THEN LowerOf[s[i]] ELSE s[i]]

\* String(n) for an integer n
RECURSIVE NatToChars(_)
NatToChars(n) ==
    IF n < 10 THEN <<DigitChars[n + 1]>>
    ELSE NatToChars(n \div 10) \o <<DigitChars[(n % 10) + 1]>>

\* the number that a string of decimal digits reads as
RECURSIVE CharsToNat(_)
CharsToNat(s) ==
    IF s = <<>> THEN 0
    ELSE 10 * CharsToNat(SubSeq(s, 1, Len(s) - 1))
         + (CHOOSE d \in 0..9 : DigitChars[d + 1] = s[Len(s)])

IntToChars(n) == IF n < 0 THEN <<"-">> \o NatToChars(0 - n) ELSE NatToChars(n)

\* the elements of a finite set of strings in ascending order
RECURSIVE SortedSeq(_)
SortedSeq(S) ==
    IF S = {} THEN <<>>
    ELSE LET m == CHOOSE x \in S : \A y \in S \ {x} : LexLess(x, y)
         IN  <<m>> \o SortedSeq(S \ {m})

----------------------------------------------------------------------------
(* JavaScript values.  Every value has the same three fields so that values
   of different JS types can be compared and stored in one set. *)

Str(s)  == [t |-> "str",  s |-> s,    n |-> 0]
Num(n)  == [t |-> "num",  s |-> <<>>, n |-> n]
Bool(b) == [t |-> "bool", s |-> <<>>, n |-> IF b THEN 1 ELSE 0]
Null    == [t |-> "null", s |-> <<>>, n |-> 0]
Undef   == [t |-> "undef", s |-> <<>>, n |-> 0]
\* the one-element array [s] of a string s (an object: compared by reference)
Arr(s)  == [t |-> "arr",  s |-> s,    n |-> 0]

\* String(v), and the template literal `${v}`
JsString(v) ==
    CASE v.t = "str"   -> v.s
      [] v.t = "num"   -> IntToChars(v.n)
      [] v.t = "bool"  -> IF v.n = 1 THEN <<"t", "r", "u", "e">> ELSE <<"f", "a", "l", "s", "e">>
      [] v.t = "null"  -> <<"n", "u", "l", "l">>
      [] v.t = "undef" -> <<"u", "n", "d", "e", "f", "i", "n", "e", "d">>
      [] v.t = "arr"   -> v.s

\* if (v): JS truthiness
Truthy(v) ==
    CASE v.t = "str"   -> v.s # <<>>
      [] v.t = "num"   -> v.n # 0
      [] v.t = "bool"  -> v.n = 1
      [] v.t = "null"  -> FALSE
      [] v.t = "undef" -> FALSE
      [] v.t = "arr"   -> TRUE

\* a !== b, where a was read from the store (JSON.parse builds fresh objects)
\* and b comes from the caller or from another read: two arrays are never
\* the same reference.
StrictNotEqual(a, b) == a.t = "arr" \/ b.t = "arr" \/ a # b

\* A JS object (a record, a data map, a patch) is a function from property
\* names to values; record[field] is undefined for a missing property.
Prop(obj, f) == IF f \in DOMAIN obj THEN obj[f] ELSE Undef

\* { ...a, ...b }
Spread(a, b) == [f \in DOMAIN a \cup DOMAIN b |-> IF f \in DOMAIN b THEN b[f] ELSE a[f]]

EmptyObject == [f \in {} |-> Undef]

\* JSON.parse(JSON.stringify(obj)): properties whose value is undefined are dropped
JsonRoundTrip(obj) == [f \in {g \in DOMAIN obj : obj[g].t # "undef"} |-> obj[f]]

\* The characters of the property names that occur in the type registry and
\* in the record envelope.
PropChars ==
       ("id" :> <<"i", "d">>)
    @@ ("type" :> <<"t", "y", "p", "e">>)
    @@ ("createdAt" :> <<"c", "r", "e", "a", "t", "e", "d", "A", "t">>)
    @@ ("updatedAt" :> <<"u", "p", "d", "a", "t", "e", "d", "A", "t">>)
    @@ ("category" :> <<"c", "a", "t", "e", "g", "o", "r", "y">>)
    @@ ("isActive" :> <<"i", "s", "A", "c", "t", "i", "v", "e">>)
    @@ ("version" :> <<"v", "e", "r", "s", "i", "o", "n">>)
    @@ ("name" :> <<"n", "a", "m", "e">>)
    @@ ("description" :> <<"d", "e", "s", "c", "r", "i", "p", "t", "i", "o", "n">>)
    @@ ("content" :> <<"c", "o", "n", "t", "e", "n", "t">>)
    @@ ("environment" :> <<"e", "n", "v", "i", "r", "o", "n", "m", "e", "n", "t">>)
    @@ ("key" :> <<"k", "e", "y">>)
    @@ ("email" :> <<"e", "m", "a", "i", "l">>)
    @@ ("role" :> <<"r", "o", "l", "e">>)
    @@ ("status" :> <<"s", "t", "a", "t", "u", "s">>)
    @@ ("department" :> <<"d", "e", "p", "a", "r", "t", "m", "e", "n", "t">>)
    @@ ("lastLoginAt" :> <<"l", "a", "s", "t", "L", "o", "g", "i", "n", "A", "t">>)
    @@ ("bio" :> <<"b", "i", "o">>)
    @@ ("priority" :> <<"p", "r", "i", "o", "r", "i", "t", "y">>)
    @@ ("assignee" :> <<"a", "s", "s", "i", "g", "n", "e", "e">>)
    @@ ("project" :> <<"p", "r", "o", "j", "e", "c", "t">>)
    @@ ("dueDate" :> <<"d", "u", "e", "D", "a", "t", "e">>)
    @@ ("completedAt" :> <<"c", "o", "m", "p", "l", "e", "t", "e", "d", "A", "t">>)
    @@ ("title" :> <<"t", "i", "t", "l", "e">>)

\* JSON.stringify(v).length for a value (no character of the model needs escaping)
JsonValueLength(v) ==
    CASE v.t = "str"   -> Len(v.s) + 2
      [] v.t = "num"   -> Len(IntToChars(v.n))
      [] v.t = "bool"  -> IF v.n = 1 THEN 4 ELSE 5
      [] v.t = "null"  -> 4
      [] v.t = "undef" -> 0
      [] v.t = "arr"   -> Len(v.s) + 4

RECURSIVE JsonPropsLength(_, _)
JsonPropsLength(obj, names) ==
    IF names = {} THEN 0
    ELSE LET f == CHOOSE g \in names : TRUE
         IN  Len(PropChars[f]) + 3 + JsonValueLength(obj[f]) + JsonPropsLength(obj, names \ {f})

\* JSON.stringify(obj).length
JsonLength(obj) ==
    LET names == {g \in DOMAIN obj : obj[g].t # "undef"}
    IN  2 + JsonPropsLength(obj, names) + (IF names = {} THEN 0 ELSE Cardinality(names) - 1)
----------------------------------------------------------------------------
(* Type registry (types.ts) *)

s_prompt == <<"p", "r", "o", "m", "p", "t">>

s_config == <<"c", "o", "n", "f", "i", "g">>

s_user == <<"u", "s", "e", "r">>

s_task == <<"t", "a", "s", "k">>

DEFAULT_STOPWORDS ==
    {<<"t", "h", "e">>,
     <<"a">>,
     <<"a", "n">>,
     <<"a", "n", "d">>,
     <<"o", "r">>,
     <<"b", "u", "t">>,
     <<"i", "n">>,
     <<"o", "n">>,
     <<"a", "t">>,
     <<"t", "o">>,
     <<"f", "o", "r">>,
     <<"o", "f">>,
     <<"w", "i", "t", "h">>,
     <<"b", "y">>,
     <<"f", "r", "o", "m">>,
     <<"a", "s">>,
     <<"i", "s">>,
     <<"w", "a", "s">>,
     <<"a", "r", "e">>,
     <<"w", "e", "r", "e">>,
     <<"b", "e", "e", "n">>,
     <<"b", "e">>,
     <<"h", "a", "v", "e">>,
     <<"h", "a", "s">>,
     <<"h", "a", "d">>,
     <<"d", "o">>,
     <<"d", "o", "e", "s">>,
     <<"d", "i", "d">>,
     <<"w", "i", "l", "l">>,
     <<"w", "o", "u", "l", "d">>,
     <<"s", "h", "o", "u", "l", "d">>,
     <<"c", "o", "u", "l", "d">>,
     <<"m", "a", "y">>,
     <<"m", "i", "g", "h", "t">>,
     <<"m", "u", "s", "t">>,
     <<"c", "a", "n">>,
     <<"t", "h", "i", "s">>,
     <<"t", "h", "a", "t">>,
     <<"t", "h", "e", "s", "e">>,
     <<"t", "h", "o", "s", "e">>}

\* TYPE_CONFIGS.  A configuration without stopwords has hasStopwords = FALSE
\* (the property is undefined).
TYPE_CONFIGS ==
       (s_prompt :> [indexedFields |-> <<"category", "isActive", "version">>,
                     timeFields |-> <<"createdAt", "updatedAt">>,
                     searchFields |-> <<"name", "description", "content">>,
                     hasStopwords |-> TRUE,
                     stopwords |-> {<<"t", "h", "e">>,
                                   <<"a">>,
                                   <<"a", "n">>,
                                   <<"a", "n", "d">>,
                                   <<"o", "r">>,
                                   <<"b", "u", "t">>,
                                   <<"i", "n">>,
                                   <<"o", "n">>,
                                   <<"a", "t">>,
                                   <<"t", "o">>,
                                   <<"f", "o", "r">>},
                     maxValueLength |-> 1000,
                     maxRecordSize |-> 100 * 1024])
    @@ (s_config :> [indexedFields |-> <<"environment", "category", "isActive">>,
                     timeFields |-> <<"createdAt", "updatedAt">>,
                     searchFields |-> <<"key", "description">>,
                     hasStopwords |-> FALSE,
                     stopwords |-> {},
                     maxValueLength |-> 500,
                     maxRecordSize |-> 50 * 1024])
    @@ (s_user :>   [indexedFields |-> <<"email", "role", "status", "department">>,
                     timeFields |-> <<"createdAt", "updatedAt", "lastLoginAt">>,
                     searchFields |-> <<"name", "email", "bio">>,
                     hasStopwords |-> TRUE,
                     stopwords |-> {<<"t", "h", "e">>,
                                   <<"a">>,
                                   <<"a", "n">>},
                     maxValueLength |-> 500,
                     maxRecordSize |-> 50 * 1024])
    @@ (s_task :>   [indexedFields |-> <<"status", "priority", "assignee", "project">>,
                     timeFields |-> <<"createdAt", "updatedAt", "dueDate", "completedAt">>,
                     searchFields |-> <<"title", "description">>,
                     hasStopwords |-> TRUE,
                     stopwords |-> {<<"t", "h", "e">>,
                                   <<"a">>,
                                   <<"a", "n">>,
                                   <<"t", "o">>,
                                   <<"f", "o", "r">>},
                     maxValueLength |-> 1000,
                     maxRecordSize |-> 100 * 1024])

\* getTypeConfig(type) throws for a type that is not registered
IsRegistered(type) == type \in DOMAIN TYPE_CONFIGS

getTypeConfig(type) == TYPE_CONFIGS[type]

MaxTypeLength == 50

MaxIdLength == 200

SafeChars == Range(LowerChars) \cup Range(UpperChars) \cup Range(DigitChars) \cup {"_", "-"}

\* /^[a-zA-Z0-9_-]+$/
SafePattern(s) == s # <<>> /\ \A i \in 1..Len(s) : s[i] \in SafeChars

\* validateTypeAndId(type, id) returns normally
validTypeAndId(type, id) ==
    /\ SafePattern(type)
    /\ SafePattern(id)
    /\ Len(type) <= MaxTypeLength
    /\ Len(id) <= MaxIdLength

----------------------------------------------------------------------------
(* Tokenizer (tokenizer.ts) *)

MinTokenLength == 2

MaxTokenLength == 50

AlnumChars == Range(LowerChars) \cup Range(DigitChars)

\* [a-z0-9]
IsAlnum(c) == c \in AlnumChars

\* text.split(/[^a-z0-9]+/): the pieces between the runs of separators, in
\* order; a leading or trailing separator run yields an empty piece.
RECURSIVE SplitFrom(_, _, _, _)
SplitFrom(s, i, cur, inSep) ==
    IF i > Len(s) THEN <<cur>>
    ELSE IF IsAlnum(s[i]) THEN SplitFrom(s, i + 1, Append(cur, s[i]), FALSE)
    ELSE IF inSep THEN SplitFrom(s, i + 1, cur, TRUE)
    ELSE <<cur>> \o SplitFrom(s, i + 1, <<>>, TRUE)

SplitNonAlnum(s) == SplitFrom(s, 1, <<>>, FALSE)

\* the filter callback without its lower length bound
KeepTokenAnyShort(token, stopwords, minLength, maxLength) ==
    /\ token # <<>>
    /\ ~(Len(token) > maxLength)
    /\ token \notin stopwords

\* the filter callback of tokenize
KeepToken(token, stopwords, minLength, maxLength) ==
    /\ token # <<>>
    /\ ~(Len(token) < minLength \/ Len(token) > maxLength)
    /\ token \notin stopwords

\* text.toLowerCase().split(/[^a-z0-9]+/).filter(...)
FilterTokens(pieces, stopwords, minLength, maxLength) ==
    LET kept == {j \in 1..Len(pieces) : KeepToken(pieces[j], stopwords, minLength, maxLength)}
        nth(k) == CHOOSE j \in kept : Cardinality({i \in kept : i < j}) = k - 1
    IN  [k \in 1..Cardinality(kept) |-> pieces[nth(k)]]

\* tokenize(text, stopwords, minLength, maxLength): the Set it returns, as a
\* set of tokens
tokenize(text, stopwords, minLength, maxLength) ==
    IF text = <<>> THEN {}
    ELSE Range(FilterTokens(SplitNonAlnum(toLowerCase(text)), stopwords, minLength, maxLength))

\* tokenize(text, stopwords) with stopwords possibly undefined: the default
\* parameter value DEFAULT_STOPWORDS then applies
tokenizeWith(text, config) ==
    tokenize(text, IF config.hasStopwords THEN config.stopwords ELSE DEFAULT_STOPWORDS,
             MinTokenLength, MaxTokenLength)

\* tokenizeFields(record, fields, stopwords): field -> tokens, only for
\* string-valued fields with at least one token
tokenizeFields(record, fields, config) ==
    LET toks(f) == IF Prop(record, f).t = "str" THEN tokenizeWith(Prop(record, f).s, config) ELSE {}
    IN  [f \in {g \in Range(fields) : toks(g) # {}} |-> toks(f)]

\* map.get(field) || new Set()
TokensOf(map, f) == IF f \in DOMAIN map THEN map[f] ELSE {}

\* diffTokenSets(oldTokens, newTokens)
diffTokenSets(oldTokens, newTokens) ==
    [added   |-> {t \in newTokens : t \notin oldTokens},
     removed |-> {t \in oldTokens : t \notin newTokens}]
----------------------------------------------------------------------------
(* Time.  An epoch-millisecond count is a sequence of 13 decimal digits, most
   significant first (the counts exceed the integers of the model checker). *)

\* new Date('2099-12-31T23:59:59.999Z').getTime() = 4102444799999
FutureDateMs == <<4, 1, 0, 2, 4, 4, 4, 7, 9, 9, 9, 9, 9>>

\* a < b for two digit sequences of the same width
RECURSIVE DigitsLess(_, _)
DigitsLess(a, b) ==
    IF a = <<>> THEN FALSE
    ELSE IF Head(a) = Head(b) THEN DigitsLess(Tail(a), Tail(b))
    ELSE Head(a) < Head(b)

\* a - b for digit sequences of the same width with a >= b: position i from
\* the right, with the borrow of the positions to its right
RECURSIVE SubFrom(_, _, _, _)
SubFrom(a, b, i, borrow) ==
    IF i = 0 THEN <<>>
    ELSE LET d == a[i] - b[i] - borrow
         IN  IF d < 0
             THEN Append(SubFrom(a, b, i - 1, 1), d + 10)
             ELSE Append(SubFrom(a, b, i - 1, 0), d)

DigitsSub(a, b) == SubFrom(a, b, Len(a), 0)

\* String(n) for a non-negative digit sequence: no leading zeros
RECURSIVE StripZeros(_)
StripZeros(d) == IF Len(d) > 1 /\ Head(d) = 0 THEN StripZeros(Tail(d)) ELSE d

DigitsToChars(d) == LET e == StripZeros(d) IN [i \in 1..Len(e) |-> DigitChars[e[i] + 1]]

\* no padding: the string as it is
PadStartNone(s, n) == s

\* s.padStart(n, '0')
PadStart(s, n) == IF Len(s) >= n THEN s ELSE [i \in 1..(n - Len(s)) |-> "0"] \o s

\* The ISO-8601 strings of the model.  The clock of the worker reads
\* 2025-01-01T00:00:00.00cZ at tick c (toISOString always prints milliseconds).
IsoClockPrefix == <<"2", "0", "2", "5", "-", "0", "1", "-", "0", "1", "T", "0", "0", ":", "0", "0", ":", "0", "0", ".", "0", "0">>

ClockIso(c) == IsoClockPrefix \o <<DigitChars[c + 1], "Z">>

\* 2025-01-01T00:00:00.000Z = 1735689600000 ms
ClockMs(c) == <<1, 7, 3, 5, 6, 8, 9, 6, 0, 0, 0, 0, c>>

\* Caller-supplied time values: two spellings of one instant, and a later one.
IsoJan2 == <<"2", "0", "2", "5", "-", "0", "1", "-", "0", "2", "T", "0", "0", ":", "0", "0", ":", "0", "0", ".", "0", "0", "0", "Z">>

IsoJan2Short == <<"2", "0", "2", "5", "-", "0", "1", "-", "0", "2", "T", "0", "0", ":", "0", "0", ":", "0", "0", "Z">>

IsoJan3 == <<"2", "0", "2", "5", "-", "0", "1", "-", "0", "3", "T", "0", "0", ":", "0", "0", ":", "0", "0", ".", "0", "0", "0", "Z">>

\* the same second as IsoJan2Short, half a second later
IsoJan2Half == <<"2", "0", "2", "5", "-", "0", "1", "-", "0", "2", "T", "0", "0", ":", "0", "0", ":", "0", "0", ".", "5", "0", "0", "Z">>

\* 2025-01-02T00:00:00Z = 1735776000000 ms
Jan2Ms == <<1, 7, 3, 5, 7, 7, 6, 0, 0, 0, 0, 0, 0>>

Jan2HalfMs == <<1, 7, 3, 5, 7, 7, 6, 0, 0, 0, 5, 0, 0>>

\* 2025-01-03T00:00:00Z = 1735862400000 ms
Jan3Ms == <<1, 7, 3, 5, 8, 6, 2, 4, 0, 0, 0, 0, 0>>

\* The epoch, and the instants around the pivot of the reverse timestamps.
IsoEpoch == <<"1", "9", "7", "0", "-", "0", "1", "-", "0", "1", "T", "0", "0", ":", "0", "0", ":", "0", "0", ".", "0", "0", "0", "Z">>

IsoBeforePivot == <<"2", "0", "9", "9", "-", "1", "2", "-", "3", "1", "T", "2", "3", ":", "5", "9", ":", "5", "9", ".", "9", "9", "8", "Z">>

IsoPivot == <<"2", "0", "9", "9", "-", "1", "2", "-", "3", "1", "T", "2", "3", ":", "5", "9", ":", "5", "9", ".", "9", "9", "9", "Z">>

IsoAfterPivot == <<"2", "1", "0", "0", "-", "0", "1", "-", "0", "1", "T", "0", "0", ":", "0", "0", ":", "0", "0", ".", "0", "0", "0", "Z">>

\* 2100-01-01T00:00:00Z = 4102444800000 ms
EpochMs == <<0, 0, 0, 0, 0, 0, 0, 0, 0, 0, 0, 0, 0>>

BeforePivotMs == <<4, 1, 0, 2, 4, 4, 4, 7, 9, 9, 9, 9, 8>>

AfterPivotMs == <<4, 1, 0, 2, 4, 4, 4, 8, 0, 0, 0, 0, 0>>

\* new Date(isoTimestamp).getTime() on the strings of the model; any other
\* string is an invalid date (NaN).
DateGetTime(iso) ==
    IF \E c \in 0..9 : iso = ClockIso(c)
    THEN [nan |-> FALSE, ms |-> ClockMs(CHOOSE c \in 0..9 : iso = ClockIso(c))]
    ELSE IF iso \in {IsoJan2, IsoJan2Short} THEN [nan |-> FALSE, ms |-> Jan2Ms]
    ELSE IF iso = IsoJan2Half THEN [nan |-> FALSE, ms |-> Jan2HalfMs]
    ELSE IF iso = IsoJan3 THEN [nan |-> FALSE, ms |-> Jan3Ms]
    ELSE IF iso = IsoEpoch THEN [nan |-> FALSE, ms |-> EpochMs]
    ELSE IF iso = IsoBeforePivot THEN [nan |-> FALSE, ms |-> BeforePivotMs]
    ELSE IF iso = IsoPivot THEN [nan |-> FALSE, ms |-> FutureDateMs]
    ELSE IF iso = IsoAfterPivot THEN [nan |-> FALSE, ms |-> AfterPivotMs]
    ELSE [nan |-> TRUE, ms |-> <<>>]

ReversePadWidth == 20

\* getReverseTimestamp(isoTimestamp): String(futureDate - currentDate).padStart(20, '0')
getReverseTimestamp(iso) ==
    LET cur == DateGetTime(iso)
        reverse == IF cur.nan THEN <<"N", "a", "N">>
                   ELSE IF DigitsLess(FutureDateMs, cur.ms)
                        THEN <<"-">> \o DigitsToChars(DigitsSub(cur.ms, FutureDateMs))
                        ELSE DigitsToChars(DigitsSub(FutureDateMs, cur.ms))
    IN  PadStart(reverse, ReversePadWidth)

----------------------------------------------------------------------------
(* Key schema (indexes.ts) *)

Colon == <<":">>

s_obj == <<"o", "b", "j">>

s_idx == <<"i", "d", "x">>

s_ts == <<"t", "s">>

s_ts_desc == <<"t", "s", "-", "d", "e", "s", "c">>

s_inv == <<"i", "n", "v">>

\* the truncation built into equalityIndexKey and equalityIndexPrefix
KeyValueLimit == 500

\* objectKey(type, id)
objectKey(type, id) == s_obj \o Colon \o type \o Colon \o id

\* the prefix `obj:${type}:` of the query engine
objectPrefix(type) == s_obj \o Colon \o type \o Colon

\* the prefix of the whole stringified value, not truncated
equalityIndexPrefixUntruncated(type, field, value) ==
    s_idx \o Colon \o type \o Colon \o PropChars[field] \o Colon \o JsString(value) \o Colon

\* equalityIndexPrefix(type, field, value)
equalityIndexPrefix(type, field, value) ==
    s_idx \o Colon \o type \o Colon \o PropChars[field] \o Colon
          \o Substring0(JsString(value), KeyValueLimit) \o Colon

\* equalityIndexKey(type, field, value, id)
equalityIndexKey(type, field, value, id) ==
    s_idx \o Colon \o type \o Colon \o PropChars[field] \o Colon
          \o Substring0(JsString(value), KeyValueLimit) \o Colon \o id

\* timeIndexPrefix(type, field)
timeIndexPrefix(type, field) == s_ts \o Colon \o type \o Colon \o PropChars[field] \o Colon

\* timeIndexKey(type, field, timestamp, id)
timeIndexKey(type, field, timestamp, id) ==
    s_ts \o Colon \o type \o Colon \o PropChars[field] \o Colon \o JsString(timestamp) \o Colon \o id

\* reverseTimeIndexPrefix(type, field)
reverseTimeIndexPrefix(type, field) ==
    s_ts_desc \o Colon \o type \o Colon \o PropChars[field] \o Colon

\* reverseTimeIndexKey(type, field, timestamp, id)
reverseTimeIndexKey(type, field, timestamp, id) ==
    s_ts_desc \o Colon \o type \o Colon \o PropChars[field] \o Colon
              \o getReverseTimestamp(JsString(timestamp)) \o Colon \o id

\* invertedIndexPrefix(type, field, token)
invertedIndexPrefix(type, field, token) ==
    s_inv \o Colon \o type \o Colon \o PropChars[field] \o Colon \o token \o Colon

\* invertedIndexKey(type, field, token, id)
invertedIndexKey(type, field, token, id) ==
    s_inv \o Colon \o type \o Colon \o PropChars[field] \o Colon \o token \o Colon \o id

\* key.split(':'), last part
RECURSIVE LastColon(_, _)
LastColon(key, i) == IF i = 0 \/ key[i] = ":" THEN i ELSE LastColon(key, i - 1)

extractIdFromKey(key) == SubSeq(key, LastColon(key, Len(key)) + 1, Len(key))

\* IndexBatch: the keys queued by put and by delete
EmptyBatch == [puts |-> {}, deletes |-> {}]

BatchPut(batch, key) == [batch EXCEPT !.puts = @ \cup {key}]

BatchDelete(batch, key) == [batch EXCEPT !.deletes = @ \cup {key}]

\* The primitive store: kv.put and kv.delete
KvPut(store, key, value) ==
    [k \in DOMAIN store \cup {key} |-> IF k = key THEN value ELSE store[k]]

KvDelete(store, key) == [k \in DOMAIN store \ {key} |-> store[k]]

\* the keys a batch both puts and deletes
BatchConflicts(batch) == batch.puts \cap batch.deletes

\* IndexBatch.execute: all puts and deletes are issued at once (Promise.all)
\* and the store applies them in an order of its own.  For a key that is only
\* put, or only deleted, the order is immaterial; for a key both put and
\* deleted the last applied operation decides: putWins is the set of those
\* keys whose put is applied last.
BatchExecute(store, batch, putWins) ==
    LET present == (DOMAIN store \ batch.deletes) \cup (batch.puts \ batch.deletes) \cup putWins
    IN  [k \in present |-> IF k \in batch.puts THEN "1" ELSE store[k]]
----------------------------------------------------------------------------
(* Index maintenance (crud.ts) *)

DefaultValueLimit == 1000

\* String(value).substring(0, config.maxValueLength || 1000)
TruncatedValue(value, config) ==
    Str(Substring0(JsString(value),
                   IF config.maxValueLength = 0 THEN DefaultValueLimit ELSE config.maxValueLength))

\* value !== undefined && value !== null
IsPresent(value) == value.t \notin {"undef", "null"}

RecType(record) == record["type"].s

RecId(record) == record["id"].s

\* the keys put by the equality loop of createIndexes (deleted by that of deleteIndexes)
EqualityKeys(record, config) ==
    {equalityIndexKey(RecType(record), f, TruncatedValue(Prop(record, f), config), RecId(record)) :
        f \in {g \in Range(config.indexedFields) : IsPresent(Prop(record, g))}}

\* the keys of the time loop: both directions for every truthy time value
TimeKeys(record, config) ==
    LET fs == {g \in Range(config.timeFields) : Truthy(Prop(record, g))}
    IN  {timeIndexKey(RecType(record), f, Prop(record, f), RecId(record)) : f \in fs}
        \cup {reverseTimeIndexKey(RecType(record), f, Prop(record, f), RecId(record)) : f \in fs}

\* the keys of the search loop: one per token per tokenized field
SearchKeys(record, config) ==
    LET searchTokens == tokenizeFields(record, config.searchFields, config)
    IN  UNION {{invertedIndexKey(RecType(record), f, token, RecId(record)) : token \in searchTokens[f]} :
                 f \in DOMAIN searchTokens}

\* createIndexes(kv, record, config): the batch it builds
createIndexes(record, config) ==
    [puts    |-> EqualityKeys(record, config) \cup TimeKeys(record, config) \cup SearchKeys(record, config),
     deletes |-> {}]

\* deleteIndexes with its equality loop only: time and search keys stay
deleteIndexesEqualityOnly(record, config) ==
    [puts    |-> {},
     deletes |-> EqualityKeys(record, config)]

\* deleteIndexes(kv, record, config): the batch it builds
deleteIndexes(record, config) ==
    [puts    |-> {},
     deletes |-> EqualityKeys(record, config) \cup TimeKeys(record, config) \cup SearchKeys(record, config)]

\* the equality loop of updateIndexes for one field
UpdateEqualityField(oldRecord, newRecord, config, f) ==
    LET oldValue == Prop(oldRecord, f)
        newValue == Prop(newRecord, f)
    IN  IF StrictNotEqual(oldValue, newValue)
        THEN [puts    |-> IF IsPresent(newValue)
                          THEN {equalityIndexKey(RecType(newRecord), f, TruncatedValue(newValue, config),
                                                 RecId(newRecord))}
                          ELSE {},
              deletes |-> IF IsPresent(oldValue)
                          THEN {equalityIndexKey(RecType(newRecord), f, TruncatedValue(oldValue, config),
                                                 RecId(newRecord))}
                          ELSE {}]
        ELSE EmptyBatch

\* the time loop of updateIndexes for one field
UpdateTimeField(oldRecord, newRecord, f) ==
    LET oldTimestamp == Prop(oldRecord, f)
        newTimestamp == Prop(newRecord, f)
    IN  IF StrictNotEqual(oldTimestamp, newTimestamp)
        THEN [puts    |-> IF Truthy(newTimestamp)
                          THEN {timeIndexKey(RecType(newRecord), f, newTimestamp, RecId(newRecord)),
                                reverseTimeIndexKey(RecType(newRecord), f, newTimestamp, RecId(newRecord))}
                          ELSE {},
              deletes |-> IF Truthy(oldTimestamp)
                          THEN {timeIndexKey(RecType(newRecord), f, oldTimestamp, RecId(newRecord)),
                                reverseTimeIndexKey(RecType(newRecord), f, oldTimestamp, RecId(newRecord))}
                          ELSE {}]
        ELSE EmptyBatch

\* the keys of a set of tokens of one field
TokenKeys(record, f, tokens) == {invertedIndexKey(RecType(record), f, token, RecId(record)) : token \in tokens}

\* batch.put for every added token, batch.delete for every removed one
DiffBatch(record, f, diff) ==
    [puts |-> TokenKeys(record, f, diff.added), deletes |-> TokenKeys(record, f, diff.removed)]

\* the search loop of updateIndexes without its deletes: the keys of removed
\* tokens stay
UpdateSearchFieldKeepsRemoved(oldRecord, newRecord, config, f) ==
    [DiffBatch(newRecord, f,
               diffTokenSets(TokensOf(tokenizeFields(oldRecord, config.searchFields, config), f),
                             TokensOf(tokenizeFields(newRecord, config.searchFields, config), f)))
       EXCEPT !.deletes = {}]

\* the search loop of updateIndexes for one field
UpdateSearchField(oldRecord, newRecord, config, f) ==
    DiffBatch(newRecord, f,
              diffTokenSets(TokensOf(tokenizeFields(oldRecord, config.searchFields, config), f),
                            TokensOf(tokenizeFields(newRecord, config.searchFields, config), f)))

\* updateIndexes(kv, oldRecord, newRecord, config): the batch it builds
MergeBatches(parts) == [puts |-> UNION {p.puts : p \in parts}, deletes |-> UNION {p.deletes : p \in parts}]

updateIndexes(oldRecord, newRecord, config) ==
    MergeBatches({UpdateEqualityField(oldRecord, newRecord, config, f) : f \in Range(config.indexedFields)}
                 \cup {UpdateTimeField(oldRecord, newRecord, f) : f \in Range(config.timeFields)}
                 \cup {UpdateSearchField(oldRecord, newRecord, config, f) : f \in Range(config.searchFields)})

----------------------------------------------------------------------------
(* Record CRUD (crud.ts).  An operation yields its error ("none" on success),
   the store it leaves, the id it worked on, and the keys it put and deleted. *)

NoRecord == EmptyObject

Outcome(err, store, id, puts, deletes) ==
    [err |-> err, store |-> store, id |-> id, puts |-> puts, deletes |-> deletes]

Failure(err, store, id) == Outcome(err, store, id, {}, {})

\* getRecord(kv, type, id): validates the identifiers, then reads the primary key
getRecord(store, type, id) ==
    IF ~validTypeAndId(type, id) THEN [err |-> "InvalidIdentifier", found |-> FALSE, value |-> NoRecord]
    ELSE IF objectKey(type, id) \in DOMAIN store
         THEN [err |-> "none", found |-> TRUE, value |-> store[objectKey(type, id)]]
         ELSE [err |-> "none", found |-> FALSE, value |-> NoRecord]

\* config.maxRecordSize && recordSize > config.maxRecordSize
TooLarge(record, config) == config.maxRecordSize # 0 /\ JsonLength(record) > config.maxRecordSize

\* { id, type, createdAt, updatedAt, ...data }: the data spread last
BuildRecordDataLast(data, id, type, createdAt, updatedAt) ==
    Spread([id |-> Str(id), type |-> Str(type), createdAt |-> createdAt, updatedAt |-> updatedAt], data)

\* { ...data, id, type, createdAt, updatedAt }: the envelope is spread last
BuildRecord(data, id, type, createdAt, updatedAt) ==
    Spread(data, [id |-> Str(id), type |-> Str(type), createdAt |-> createdAt, updatedAt |-> updatedAt])

\* kv.put(key, JSON.stringify(record)), then the index batch is executed
WriteRecord(store, type, id, record, batch, putWins) ==
    Outcome("none",
            BatchExecute(KvPut(store, objectKey(type, id), JsonRoundTrip(record)), batch,
                         putWins \cap BatchConflicts(batch)),
            id, {objectKey(type, id)} \cup batch.puts, batch.deletes)

\* the size test, the write and the indexes of createRecord
StoreCreated(store, type, id, record, config) ==
    IF TooLarge(record, config) THEN Failure("RecordTooLarge", store, id)
    ELSE WriteRecord(store, type, id, record, createIndexes(record, config), {})

\* createRecord that does not look for an existing record
createRecordOverwrites(store, type, data, providedId, generated, timestamp) ==
    LET id == IF providedId # <<>> THEN providedId ELSE generated
    IN
    IF ~IsRegistered(type) THEN Failure("UnknownType", store, id)
    ELSE IF ~validTypeAndId(type, id) THEN Failure("InvalidIdentifier", store, id)
    ELSE StoreCreated(store, type, id, BuildRecord(data, id, type, Str(timestamp), Str(timestamp)),
                      getTypeConfig(type))

\* createRecord(kv, type, data, providedId); generated is what generateId()
\* returns if called, timestamp what getCurrentTimestamp() returns
createRecord(store, type, data, providedId, generated, timestamp) ==
    LET id == IF providedId # <<>> THEN providedId ELSE generated
    IN
    IF ~IsRegistered(type) THEN Failure("UnknownType", store, id)
    ELSE IF ~validTypeAndId(type, id) THEN Failure("InvalidIdentifier", store, id)
    ELSE IF getRecord(store, type, id).found THEN Failure("AlreadyExists", store, id)
    ELSE StoreCreated(store, type, id, BuildRecord(data, id, type, Str(timestamp), Str(timestamp)),
                      getTypeConfig(type))

\* the index batch of updateRecord(kv, type, id, data) on a stored record
updateBatch(store, type, id, data, timestamp) ==
    LET oldRecord == store[objectKey(type, id)]
        newRecord == BuildRecord(data, id, type, Prop(oldRecord, "createdAt"), Str(timestamp))
    IN  updateIndexes(oldRecord, newRecord, getTypeConfig(type))

\* the size test, the write and the indexes of updateRecord
StoreUpdated(store, type, id, oldRecord, newRecord, config, putWins) ==
    IF TooLarge(newRecord, config) THEN Failure("RecordTooLarge", store, id)
    ELSE WriteRecord(store, type, id, newRecord, updateIndexes(oldRecord, newRecord, config), putWins)

\* updateRecord stamping createdAt anew
updateRecordRestamps(store, type, id, data, timestamp, putWins) ==
    IF ~IsRegistered(type) THEN Failure("UnknownType", store, id)
    ELSE IF ~validTypeAndId(type, id) THEN Failure("InvalidIdentifier", store, id)
    ELSE IF ~getRecord(store, type, id).found THEN Failure("NotFound", store, id)
    ELSE StoreUpdated(store, type, id, getRecord(store, type, id).value,
                      BuildRecord(data, id, type, Str(timestamp), Str(timestamp)),
                      getTypeConfig(type), putWins)

\* updateRecord(kv, type, id, data); putWins resolves the keys the index
\* batch both puts and deletes
updateRecord(store, type, id, data, timestamp, putWins) ==
    IF ~IsRegistered(type) THEN Failure("UnknownType", store, id)
    ELSE IF ~validTypeAndId(type, id) THEN Failure("InvalidIdentifier", store, id)
    ELSE IF ~getRecord(store, type, id).found THEN Failure("NotFound", store, id)
    ELSE StoreUpdated(store, type, id, getRecord(store, type, id).value,
                      BuildRecord(data, id, type, Prop(getRecord(store, type, id).value, "createdAt"),
                                  Str(timestamp)),
                      getTypeConfig(type), putWins)

\* patchRecord(kv, type, id, patch)
patchRecord(store, type, id, patch, timestamp, putWins) ==
    LET got == getRecord(store, type, id)
    IN
    IF got.err # "none" THEN Failure(got.err, store, id)
    ELSE IF ~got.found THEN Failure("NotFound", store, id)
    ELSE updateRecord(store, type, id, Spread(got.value, patch), timestamp, putWins)

\* kv.delete(key), then the index batch is executed
RemoveRecord(store, type, id, batch) ==
    Outcome("none", BatchExecute(KvDelete(store, objectKey(type, id)), batch, {}), id,
            batch.puts, {objectKey(type, id)} \cup batch.deletes)

\* deleteRecord deleting the primary key even when no record is stored
deleteRecordAlwaysDeletes(store, type, id) ==
    IF ~IsRegistered(type) THEN Failure("UnknownType", store, id)
    ELSE IF ~validTypeAndId(type, id) THEN Failure("InvalidIdentifier", store, id)
    ELSE IF ~getRecord(store, type, id).found
         THEN Outcome("none", KvDelete(store, objectKey(type, id)), id, {}, {objectKey(type, id)})
    ELSE RemoveRecord(store, type, id, deleteIndexes(getRecord(store, type, id).value, getTypeConfig(type)))

\* deleteRecord(kv, type, id)
deleteRecord(store, type, id) ==
    IF ~IsRegistered(type) THEN Failure("UnknownType", store, id)
    ELSE IF ~validTypeAndId(type, id) THEN Failure("InvalidIdentifier", store, id)
    ELSE IF ~getRecord(store, type, id).found THEN Outcome("none", store, id, {}, {})
    ELSE RemoveRecord(store, type, id, deleteIndexes(getRecord(store, type, id).value, getTypeConfig(type)))

\* upsertRecord(kv, type, id, data)
upsertRecord(store, type, id, data, timestamp, putWins) ==
    LET got == getRecord(store, type, id)
    IN
    IF got.err # "none" THEN Failure(got.err, store, id)
    ELSE IF got.found THEN updateRecord(store, type, id, data, timestamp, putWins)
    ELSE createRecord(store, type, data, id, id, timestamp)

\* the keys that the index batch of an update of (type, id) with data would
\* both put and delete
UpdateConflicts(store, type, id, data, timestamp) ==
    IF IsRegistered(type) /\ validTypeAndId(type, id) /\ getRecord(store, type, id).found
    THEN BatchConflicts(updateBatch(store, type, id, data, timestamp))
    ELSE {}

PatchConflicts(store, type, id, patch, timestamp) ==
    IF validTypeAndId(type, id) /\ getRecord(store, type, id).found
    THEN UpdateConflicts(store, type, id, Spread(getRecord(store, type, id).value, patch), timestamp)
    ELSE {}

----------------------------------------------------------------------------
(* Query executor (query.ts).  A JS Set keeps insertion order, so an id set
   is a sequence without repetitions. *)

RECURSIVE Dedup(_)
Dedup(s) ==
    IF s = <<>> THEN <<>>
    ELSE LET init == Dedup(SubSeq(s, 1, Len(s) - 1))
         IN  IF s[Len(s)] \in Range(init) THEN init ELSE Append(init, s[Len(s)])

RECURSIVE FilterSeq(_, _)
FilterSeq(s, keep) ==
    IF s = <<>> THEN <<>>
    ELSE IF Head(s) \in keep THEN <<Head(s)>> \o FilterSeq(Tail(s), keep)
    ELSE FilterSeq(Tail(s), keep)

RECURSIVE Flatten(_)
Flatten(ss) == IF ss = <<>> THEN <<>> ELSE Head(ss) \o Flatten(Tail(ss))

\* intersect(a, b): the items of a that b has, in a's order
intersect(a, b) == FilterSeq(a, Range(b))

\* union(...sets)
union(sets) == Dedup(Flatten(sets))

\* array.slice(0, n)
Slice0(s, n) == SubSeq(s, 1, Min(n, Len(s)))

ListPageLimit == 1000

\* The cursor string that kv.list hands out for a position, and the position
\* that such a string (or no cursor, <<>>) stands for.
ListCursor(position) == IF position = 0 THEN <<>> ELSE NatToChars(position)

CursorPosition(cursor) == IF cursor = <<>> THEN 0 ELSE CharsToNat(cursor)

\* kv.list({prefix, limit, cursor}): the keys under the prefix in lexicographic
\* order, at most limit of them, from the position the cursor stands for (a
\* cursor is the count of keys already listed; 0 is no cursor)
ListPage(all, limit, cursor) ==
    LET upto == Min(Len(all), cursor + limit)
    IN  [keys |-> SubSeq(all, cursor + 1, upto),
         cursor |-> IF upto < Len(all) THEN upto ELSE 0,
         list_complete |-> upto >= Len(all)]

kvList(store, prefix, limit, cursor) ==
    ListPage(SortedSeq({k \in DOMAIN store : StartsWith(k, prefix)}), limit, cursor)

\* listAllKeys(kv, prefix, maxKeys): pages of at most min(1000, maxKeys - n)
\* keys are appended until the store gives no cursor or maxKeys are held
RECURSIVE ListLoop(_, _, _, _, _)
ListNext(store, prefix, maxKeys, keys, result) ==
    IF Len(keys \o result.keys) >= maxKeys \/ result.cursor = 0 THEN keys \o result.keys
    ELSE ListLoop(store, prefix, maxKeys, keys \o result.keys, result.cursor)

ListLoop(store, prefix, maxKeys, keys, cursor) ==
    ListNext(store, prefix, maxKeys, keys,
             kvList(store, prefix, Min(ListPageLimit, maxKeys - Len(keys)), cursor))

listAllKeys(store, prefix, maxKeys) == ListLoop(store, prefix, maxKeys, <<>>, 0)

\* A store that pages as it likes: page j of a listing holds at most
\* sizes[j] keys (the sizes are taken in turn, again and again) and never more
\* than the limit asked for.
PageSizeAt(sizes, j) == sizes[((j - 1) % Len(sizes)) + 1]

kvListPaged(store, prefix, limit, cursor, size) ==
    ListPage(SortedSeq({k \in DOMAIN store : StartsWith(k, prefix)}), Min(limit, size), cursor)

\* the loop of listAllKeys left after its first kv.list
ListNextPagedOnce(store, prefix, maxKeys, keys, result, sizes, j) ==
    [keys |-> keys \o result.keys, pages |-> j]

\* the loop of listAllKeys against such a store: the keys, and the number of
\* kv.list calls made
RECURSIVE ListLoopPaged(_, _, _, _, _, _, _)
ListNextPaged(store, prefix, maxKeys, keys, result, sizes, j) ==
    IF Len(keys \o result.keys) >= maxKeys \/ result.cursor = 0
    THEN [keys |-> keys \o result.keys, pages |-> j]
    ELSE ListLoopPaged(store, prefix, maxKeys, keys \o result.keys, result.cursor, sizes, j + 1)

ListLoopPaged(store, prefix, maxKeys, keys, cursor, sizes, j) ==
    ListNextPaged(store, prefix, maxKeys, keys,
                  kvListPaged(store, prefix, Min(ListPageLimit, maxKeys - Len(keys)), cursor,
                              PageSizeAt(sizes, j)),
                  sizes, j)

listAllKeysPaged(store, prefix, maxKeys, sizes) == ListLoopPaged(store, prefix, maxKeys, <<>>, 0, sizes, 1)

IdsOfKeys(keys) == Dedup([i \in 1..Len(keys) |-> extractIdFromKey(keys[i])])

\* getIdsForEqualityFilter(kv, type, field, value)
getIdsForEqualityFilter(store, type, field, value) ==
    IdsOfKeys(listAllKeys(store, equalityIndexPrefix(type, field, value), ListPageLimit))

\* getIdsForSearchToken(kv, type, field, token)
getIdsForSearchToken(store, type, field, token) ==
    IdsOfKeys(listAllKeys(store, invertedIndexPrefix(type, field, token), ListPageLimit))

\* idSets.sort((a, b) => a.size - b.size): a stable sort by ascending size
RECURSIVE SortBySize(_)
SortBySize(sets) ==
    IF sets = <<>> THEN <<>>
    ELSE LET m == CHOOSE i \in 1..Len(sets) :
                     /\ \A j \in 1..Len(sets) : Len(sets[i]) <= Len(sets[j])
                     /\ \A j \in 1..(i - 1) : Len(sets[j]) > Len(sets[i])
         IN  <<sets[m]>> \o SortBySize(SubSeq(sets, 1, m - 1) \o SubSeq(sets, m + 1, Len(sets)))

\* the intersection loop of executeAndFilters, with its break on an empty result
RECURSIVE IntersectFrom(_, _, _)
IntersectFrom(result, idSets, i) ==
    IF i > Len(idSets) THEN result
    ELSE LET next == intersect(result, idSets[i])
         IN  IF next = <<>> THEN next ELSE IntersectFrom(next, idSets, i + 1)

\* the loop left as soon as a single id remains, the sets after it unread
IntersectAllStopsAtOne(idSets) ==
    IF Len(idSets[1]) <= 1 THEN idSets[1] ELSE IntersectFrom(idSets[1], idSets, 2)

\* let result = idSets[0]; for (i = 1; ...) result = intersect(result, idSets[i])
IntersectAll(idSets) == IntersectFrom(idSets[1], idSets, 2)

\* executeAndFilters(kv, type, filters)
executeAndFilters(store, type, filters) ==
    IF filters = <<>> THEN <<>>
    ELSE IntersectAll(SortBySize([i \in 1..Len(filters) |->
                          getIdsForEqualityFilter(store, type, filters[i].field, filters[i].value)]))

\* executeOrFilters(kv, type, filters)
executeOrFilters(store, type, filters) ==
    union([i \in 1..Len(filters) |->
              getIdsForEqualityFilter(store, type, filters[i].field, filters[i].value)])

\* the tokens of tokenize(query, config.stopwords) in the iteration order of
\* the Set: the order of first occurrence in the text
tokenOrder(query, config) ==
    IF query = <<>> THEN <<>>
    ELSE Dedup(FilterTokens(SplitNonAlnum(toLowerCase(query)),
                            IF config.hasStopwords THEN config.stopwords ELSE DEFAULT_STOPWORDS,
                            MinTokenLength, MaxTokenLength))

\* executeSearch(kv, type, query, searchFields, config): per token the ids
\* over all fields, then the union over the tokens
\* the search keeping only the ids that every token gives
SearchTokensAllRequired(store, type, tokens, fields) ==
    IF tokens = <<>> THEN <<>>
    ELSE IntersectAll([i \in 1..Len(tokens) |->
              union([j \in 1..Len(fields) |-> getIdsForSearchToken(store, type, fields[j], tokens[i])])])

\* the loops of executeSearch: per token the ids over all fields, united
SearchTokens(store, type, tokens, fields) ==
    union([i \in 1..Len(tokens) |->
              union([j \in 1..Len(fields) |-> getIdsForSearchToken(store, type, fields[j], tokens[i])])])

executeSearch(store, type, query, fields, config) ==
    SearchTokens(store, type, tokenOrder(query, config), fields)

\* applySorting(kv, type, ids, sort, config), for a sort field that is time-indexed
HeldIdsOf(keys, ids) == Dedup(FilterSeq([i \in 1..Len(keys) |-> extractIdFromKey(keys[i])], Range(ids)))

applySorting(store, type, ids, sort) ==
    HeldIdsOf(listAllKeys(store,
                          IF sort.direction = "asc" THEN timeIndexPrefix(type, sort.field)
                          ELSE reverseTimeIndexPrefix(type, sort.field),
                          ListPageLimit),
              ids)

\* listAllIds(kv, type, limit)
listAllIds(store, type, limit) == IdsOfKeys(listAllKeys(store, objectPrefix(type), limit))

\* fetchRecords(kv, type, ids): the records found, the missing ones dropped
fetchRecords(store, type, ids) ==
    LET found == FilterSeq(ids, {id \in Range(ids) : objectKey(type, id) \in DOMAIN store})
    IN  [i \in 1..Len(found) |-> store[objectKey(type, found[i])]]

QueryResult(err, records, cursor, hasMore, count) ==
    [err |-> err, records |-> records, cursor |-> cursor, hasMore |-> hasMore, count |-> count]

\* listAllRecords(kv, type, limit, cursor): one page of the primary keys
ListedRecords(store, result) ==
    QueryResult("none", [i \in 1..Len(result.keys) |-> store[result.keys[i]]],
                ListCursor(result.cursor), ~result.list_complete, Len(result.keys))

listAllRecords(store, type, limit, cursor) ==
    ListedRecords(store, kvList(store, objectPrefix(type), Min(limit, ListPageLimit), CursorPosition(cursor)))

DefaultLimit == 50

MaxLimit == 200

\* Query options.  A property that is absent has its has-flag FALSE (an empty
\* array is present: it is truthy); q is absent or empty when <<>>; limit 0 and
\* cursor <<>> are absent.
NoOptions ==
    [hasWhere |-> FALSE, where |-> <<>>, hasAnd |-> FALSE, and |-> <<>>, hasOr |-> FALSE, or |-> <<>>,
     q |-> <<>>, hasSearchFields |-> FALSE, searchFields |-> <<>>,
     hasSort |-> FALSE, sort |-> [field |-> "createdAt", direction |-> "asc"],
     limit |-> 0, cursor |-> <<>>]

\* Math.min(options.limit || 50, 200)
QueryLimit(options) == Min(IF options.limit = 0 THEN DefaultLimit ELSE options.limit, MaxLimit)

\* executeQuery, the filtered path: the ids of the search, of the AND filters
\* (where and and together), or of the listing
BaseIds(store, type, options, config) ==
    IF options.q # <<>>
    THEN executeSearch(store, type, options.q,
                       IF options.hasSearchFields THEN options.searchFields ELSE config.searchFields,
                       config)
    ELSE IF Len(options.where \o options.and) > 0
         THEN executeAndFilters(store, type, options.where \o options.and)
         ELSE listAllIds(store, type, QueryLimit(options))

\* the OR filters narrowing the ids instead of widening them
WithOrIdsIntersected(store, type, options, ids) ==
    IF options.hasOr /\ Len(options.or) > 0
    THEN intersect(ids, executeOrFilters(store, type, options.or))
    ELSE ids

\* ids = new Set([...ids, ...orIds])
WithOrIds(store, type, options, ids) ==
    IF options.hasOr /\ Len(options.or) > 0
    THEN Dedup(ids \o executeOrFilters(store, type, options.or))
    ELSE ids

\* if (options.sort) ids = await applySorting(...)
WithSorting(store, type, options, ids) ==
    IF options.hasSort THEN applySorting(store, type, ids, options.sort) ELSE ids

\* the page with the last id of the page as its cursor
PageOfLastIdAsCursor(records, idsArray, limit) ==
    QueryResult("none", records,
                IF Len(idsArray) > limit THEN idsArray[limit] ELSE <<>>,
                Len(idsArray) > limit, Len(records))

\* the page of the resolved ids: the records fetched, cursor, hasMore, count
PageOf(records, idsArray, limit) ==
    QueryResult("none", records,
                IF Len(idsArray) > limit THEN idsArray[limit + 1] ELSE <<>>,
                Len(idsArray) > limit, Len(records))

Paginate(store, type, idsArray, limit) ==
    PageOf(fetchRecords(store, type, Slice0(idsArray, limit)), idsArray, limit)

\* executeQuery(kv, type, options)
executeQuery(store, type, options) ==
    IF ~IsRegistered(type) THEN QueryResult("UnknownType", <<>>, <<>>, FALSE, 0)
    ELSE IF ~options.hasWhere /\ ~options.hasAnd /\ ~options.hasOr /\ options.q = <<>> /\ ~options.hasSort
    THEN listAllRecords(store, type, QueryLimit(options), options.cursor)
    ELSE IF options.hasSort /\ options.sort.field \notin Range(getTypeConfig(type).timeFields)
    THEN QueryResult("InvalidSort", <<>>, <<>>, FALSE, 0)
    ELSE Paginate(store, type,
                  WithSorting(store, type, options,
                              WithOrIds(store, type, options,
                                        BaseIds(store, type, options, getTypeConfig(type)))),
                  QueryLimit(options))

\* the ids of the records a query returns
ResultIds(result) == {RecId(result.records[i]) : i \in 1..Len(result.records)}

\* { where: [{ field, value }] }
WhereEquals(field, value) ==
    [NoOptions EXCEPT !.hasWhere = TRUE, !.where = <<[field |-> field, value |-> value]>>]

----------------------------------------------------------------------------
(* Bulk operations (bulk.ts).  A bulk call yields its error ("none" when it
   returns), the store it leaves, one result per processed item, the two
   counters, and the keys that its items put and deleted. *)

MaxBulkItems == 100

DefaultBulkLimit == 100

BulkOutcome(err, store, results, succeeded, failed, puts, deletes) ==
    [err |-> err, store |-> store, results |-> results, succeeded |-> succeeded, failed |-> failed,
     puts |-> puts, deletes |-> deletes]

BulkFailure(err, store) == BulkOutcome(err, store, <<>>, 0, 0, {}, {})

\* a loop that gives up the result of an item that failed: it is counted and
\* not reported
BulkPushSkipsFailed(acc, out, id, operation) ==
    IF out.err = "none"
    THEN BulkOutcome("none", out.store,
                     Append(acc.results, [ok |-> TRUE, id |-> id, operation |-> operation, error |-> ""]),
                     acc.succeeded + 1, acc.failed, acc.puts \cup out.puts, acc.deletes \cup out.deletes)
    ELSE [acc EXCEPT !.failed = @ + 1]

\* results.push({ ok, id, operation | error }) and the counter of its kind,
\* for an item whose single-record call gave out
BulkPush(acc, out, id, operation) ==
    BulkOutcome("none", out.store,
                Append(acc.results,
                       [ok |-> out.err = "none", id |-> id,
                        operation |-> IF out.err = "none" THEN operation ELSE "",
                        error |-> IF out.err = "none" THEN "" ELSE out.err]),
                IF out.err = "none" THEN acc.succeeded + 1 ELSE acc.succeeded,
                IF out.err = "none" THEN acc.failed ELSE acc.failed + 1,
                acc.puts \cup out.puts, acc.deletes \cup out.deletes)

s_unknown == <<"u", "n", "k", "n", "o", "w", "n">>

\* the loop of bulkUpsert from item i on
RECURSIVE bulkUpsertFrom(_, _, _, _, _, _)
bulkUpsertFrom(acc, type, items, i, timestamp, putWins) ==
    IF i > Len(items) THEN acc
    ELSE LET item == items[i]
             id   == JsString(Prop(item, "id"))
             out  == IF ~Truthy(Prop(item, "id")) THEN Failure("MissingId", acc.store, <<>>)
                     ELSE upsertRecord(acc.store, type, id, item, timestamp,
                                       putWins \cap UpdateConflicts(acc.store, type, id, item, timestamp))
             operation == IF getRecord(acc.store, type, id).found THEN "updated" ELSE "created"
         IN  bulkUpsertFrom(BulkPush(acc, out,
                                     IF Truthy(Prop(item, "id")) THEN id ELSE s_unknown, operation),
                            type, items, i + 1, timestamp, putWins)

\* bulkUpsert(kv, type, items)
bulkUpsert(store, type, items, timestamp, putWins) ==
    IF ~IsRegistered(type) THEN BulkFailure("UnknownType", store)
    ELSE IF Len(items) > MaxBulkItems THEN BulkFailure("TooManyItems", store)
    ELSE bulkUpsertFrom(BulkFailure("none", store), type, items, 1, timestamp, putWins)

\* the loop of bulkPatch from id i on
RECURSIVE bulkPatchFrom(_, _, _, _, _, _, _)
bulkPatchFrom(acc, type, ids, patch, i, timestamp, putWins) ==
    IF i > Len(ids) THEN acc
    ELSE bulkPatchFrom(BulkPush(acc, patchRecord(acc.store, type, ids[i], patch, timestamp,
                                                 putWins \cap PatchConflicts(acc.store, type, ids[i], patch,
                                                                             timestamp)),
                                ids[i], "updated"),
                       type, ids, patch, i + 1, timestamp, putWins)

\* bulkPatch testing the number of ids after its first id has been patched
bulkPatchFailsLate(store, type, ids, patch, timestamp, putWins) ==
    IF ~IsRegistered(type) THEN BulkFailure("UnknownType", store)
    ELSE IF Len(ids) > MaxBulkItems
    THEN [bulkPatchFrom(BulkFailure("none", store), type, SubSeq(ids, 1, 1), patch, 1, timestamp, putWins)
            EXCEPT !.err = "TooManyItems", !.results = <<>>]
    ELSE bulkPatchFrom(BulkFailure("none", store), type, ids, patch, 1, timestamp, putWins)

\* bulkPatch(kv, type, ids, patch)
bulkPatch(store, type, ids, patch, timestamp, putWins) ==
    IF ~IsRegistered(type) THEN BulkFailure("UnknownType", store)
    ELSE IF Len(ids) > MaxBulkItems THEN BulkFailure("TooManyItems", store)
    ELSE bulkPatchFrom(BulkFailure("none", store), type, ids, patch, 1, timestamp, putWins)

\* the loop of bulkDelete from id i on
RECURSIVE bulkDeleteFrom(_, _, _, _)
bulkDeleteFrom(acc, type, ids, i) ==
    IF i > Len(ids) THEN acc
    ELSE bulkDeleteFrom(BulkPush(acc, deleteRecord(acc.store, type, ids[i]), ids[i], "deleted"),
                        type, ids, i + 1)

\* bulkDelete without the look at the registry
bulkDeleteUnchecked(store, type, ids) ==
    IF Len(ids) > MaxBulkItems THEN BulkFailure("TooManyItems", store)
    ELSE bulkDeleteFrom(BulkFailure("none", store), type, ids, 1)

\* bulkDelete(kv, type, ids)
bulkDelete(store, type, ids) ==
    IF ~IsRegistered(type) THEN BulkFailure("UnknownType", store)
    ELSE IF Len(ids) > MaxBulkItems THEN BulkFailure("TooManyItems", store)
    ELSE bulkDeleteFrom(BulkFailure("none", store), type, ids, 1)

\* executeQuery(kv, type, { and: andFilters, limit }) and the ids of its records
WhereQuery(store, type, andFilters, limit) ==
    executeQuery(store, type, [NoOptions EXCEPT !.hasAnd = TRUE, !.and = andFilters, !.limit = limit])

RecordIds(records) == [i \in 1..Len(records) |-> RecId(records[i])]

\* bulkUpdateWhere after its query: nothing to do for no records, else bulkPatch
PatchMatched(store, type, queryResult, patch, timestamp, putWins) ==
    IF Len(queryResult.records) = 0 THEN BulkFailure("none", store)
    ELSE bulkPatch(store, type, RecordIds(queryResult.records), patch, timestamp, putWins)

\* bulkUpdateWhere(kv, type, andFilters, patch, limit)
bulkUpdateWhere(store, type, andFilters, patch, limit, timestamp, putWins) ==
    IF ~IsRegistered(type) THEN BulkFailure("UnknownType", store)
    ELSE PatchMatched(store, type, WhereQuery(store, type, andFilters, limit), patch, timestamp, putWins)

\* bulkDeleteWhere after its query: nothing to do for no records, else bulkDelete
DeleteMatched(store, type, queryResult) ==
    IF Len(queryResult.records) = 0 THEN BulkFailure("none", store)
    ELSE bulkDelete(store, type, RecordIds(queryResult.records))

\* bulkDeleteWhere(kv, type, andFilters, limit)
bulkDeleteWhere(store, type, andFilters, limit) ==
    IF ~IsRegistered(type) THEN BulkFailure("UnknownType", store)
    ELSE DeleteMatched(store, type, WhereQuery(store, type, andFilters, limit))

----------------------------------------------------------------------------
(* The derived-index invariant of one stored record (spec, section 3), used
   to record whether it held when a call began. *)

\* the index keys of the store that belong to (type, id)
DerivedKeysOf(store, type, id) ==
    {k \in DOMAIN store :
        /\ extractIdFromKey(k) = id
        /\ \E kind \in {s_idx, s_ts, s_ts_desc, s_inv} : StartsWith(k, kind \o Colon \o type \o Colon)}

\* the keys of (type, id) under one index kind and field
FieldKeysOf(store, kind, type, field, id) ==
    {k \in DOMAIN store :
        /\ extractIdFromKey(k) = id
        /\ StartsWith(k, kind \o Colon \o type \o Colon \o PropChars[field] \o Colon)}

\* equality part: the key of the present value exists, and no other
EqualityHolds(store, R) ==
    LET T == RecType(R)
        config == getTypeConfig(T)
    IN  \A F \in Range(config.indexedFields) :
            IsPresent(Prop(R, F)) =>
                LET want == equalityIndexKey(T, F, TruncatedValue(Prop(R, F), config), RecId(R))
                IN  want \in DOMAIN store /\ FieldKeysOf(store, s_idx, T, F, RecId(R)) = {want}

\* time part: the ascending and the descending key of the present value exist, and no other
TimeHolds(store, R) ==
    LET T == RecType(R)
        config == getTypeConfig(T)
    IN  \A F \in Range(config.timeFields) :
            IsPresent(Prop(R, F)) =>
                /\ FieldKeysOf(store, s_ts, T, F, RecId(R)) = {timeIndexKey(T, F, Prop(R, F), RecId(R))}
                /\ FieldKeysOf(store, s_ts_desc, T, F, RecId(R))
                       = {reverseTimeIndexKey(T, F, Prop(R, F), RecId(R))}

\* search part: the inverted keys of a search field are those of its current tokens
SearchHolds(store, R) ==
    LET T == RecType(R)
        config == getTypeConfig(T)
    IN  \A F \in Range(config.searchFields) :
            FieldKeysOf(store, s_inv, T, F, RecId(R))
                = {invertedIndexKey(T, F, token, RecId(R)) :
                     token \in IF Prop(R, F).t = "str" THEN tokenizeWith(Prop(R, F).s, config) ELSE {}}

DerivedInvariantFor(store, R) == EqualityHolds(store, R) /\ TimeHolds(store, R) /\ SearchHolds(store, R)

\* the records of the store
IsObjectKey(k) == StartsWith(k, s_obj \o Colon)

StoredRecords(store) == {store[k] : k \in {x \in DOMAIN store : IsObjectKey(x)}}

----------------------------------------------------------------------------
(* The engine as a state machine: calls run against the store, one at a time
   or, further down, step by step and side by side.
   kv is the primitive store (key -> value: the parsed record under a primary
   key, "1" under an index key), now the tick of the worker's clock, last the
   latest call: its arguments, its error, how many keys it put and deleted,
   whether it repeats the call before it, and, of the store it started from,
   the primary record (if it existed) and whether the derived-index invariant
   held for it.  calls holds, for every caller, its call in flight (idle
   while calls run one at a time), faults counts the index operations that
   the store has failed. *)

\* the derived-index invariant of one id: the index keys of (type, id) in the
\* store are those of the stored record, and there is none without a record
IndexConsistentFor(store, type, id) ==
    DerivedKeysOf(store, type, id)
        = IF objectKey(type, id) \in DOMAIN store
          THEN createIndexes(store[objectKey(type, id)], getTypeConfig(type)).puts
          ELSE {}

\* the callers that may have a call in flight at the same time
Procs == {1, 2}

\* A call in flight (calls[p]): pc is the await it stands before ("read",
\* "write", "index", "fetch", "return") or "idle"/"done"; old and new are the
\* records it read and built; ops the operations of its index batch that the
\* store has not settled, failed those the store failed; resolved the ordered
\* ids of a query, ids its page, got what each kv.get of the page returned.
\* History: n counts the caller's calls, alone and held tell whether no other
\* call was in flight and whether the invariant held for the id when the call
\* began, rivals counts the calls that began while it was in flight, raced
\* tells whether any call of the caller has overlapped another, afterFault
\* whether the caller's call before this one, on the same record, had an
\* index operation fail.
IdleCall ==
    [pc |-> "idle", op |-> "none", type |-> <<>>, id |-> <<>>, data |-> EmptyObject, options |-> NoOptions,
     old |-> NoRecord, new |-> NoRecord, ops |-> {}, failed |-> {}, err |-> "none",
     resolved |-> <<>>, ids |-> <<>>, got |-> <<>>, result |-> QueryResult("none", <<>>, <<>>, FALSE, 0),
     n |-> 0, alone |-> TRUE, held |-> TRUE, rivals |-> 0, raced |-> FALSE, afterFault |-> FALSE,
     fast |-> FALSE]

s_a == <<"a">>

\* generateId() returns `${Date.now()}-${random}`: some identifier of this shape
GeneratedIds == {<<"1", "-", "x">>}

Call(op, type, id, data, out, store, provided) ==
    [op |-> op, type |-> type, id |-> id, data |-> data, provided |-> provided, err |-> out.err,
     nPuts |-> Cardinality(out.puts), nDeletes |-> Cardinality(out.deletes),
     existed |-> objectKey(type, id) \in DOMAIN store,
     before |-> IF objectKey(type, id) \in DOMAIN store THEN store[objectKey(type, id)] ELSE NoRecord,
     held |-> objectKey(type, id) \in DOMAIN store
                  /\ DerivedInvariantFor(store, store[objectKey(type, id)]),
     repeat |-> last.op = op /\ last.type = type /\ last.id = id /\ last.err = "none"]

Idle ==
    [op |-> "none", type |-> <<>>, id |-> <<>>, data |-> EmptyObject, provided |-> FALSE, err |-> "none",
     nPuts |-> 0, nDeletes |-> 0, existed |-> FALSE, before |-> NoRecord, held |-> FALSE,
     repeat |-> FALSE]

Init ==
    /\ kv = [k \in {} |-> "1"]
    /\ now = 0
    /\ last = Idle
    /\ calls = [p \in Procs |-> IdleCall]
    /\ faults = 0

\* time passes between two calls
Tick(P) ==
    /\ now < P.maxClock
    /\ now' = now + 1
    /\ last' = Idle
    /\ UNCHANGED <<kv, calls, faults>>

\* createRecord(kv, type, data, providedId?); providedId <<>> is an absent one
DoCreate(P) ==
    \E c \in P.creates, generated \in GeneratedIds :
        LET out == createRecord(kv, c.type, c.data, c.id, generated, ClockIso(now))
        IN  /\ kv' = out.store
            /\ last' = Call("create", c.type, out.id, c.data, out, kv, c.id # <<>>)
            /\ UNCHANGED <<now, calls, faults>>

\* updateRecord(kv, type, id, data)
DoUpdate(P) ==
    \E c \in P.updates :
        \E putWins \in SUBSET UpdateConflicts(kv, c.type, c.id, c.data, ClockIso(now)) :
            LET out == updateRecord(kv, c.type, c.id, c.data, ClockIso(now), putWins)
            IN  /\ kv' = out.store
                /\ last' = Call("update", c.type, c.id, c.data, out, kv, TRUE)
                /\ UNCHANGED <<now, calls, faults>>

\* patchRecord(kv, type, id, patch)
DoPatch(P) ==
    \E c \in P.patches :
        \E putWins \in SUBSET PatchConflicts(kv, c.type, c.id, c.data, ClockIso(now)) :
            LET out == patchRecord(kv, c.type, c.id, c.data, ClockIso(now), putWins)
            IN  /\ kv' = out.store
                /\ last' = Call("patch", c.type, c.id, c.data, out, kv, TRUE)
                /\ UNCHANGED <<now, calls, faults>>

\* upsertRecord(kv, type, id, data)
DoUpsert(P) ==
    \E c \in P.upserts :
        \E putWins \in SUBSET UpdateConflicts(kv, c.type, c.id, c.data, ClockIso(now)) :
            LET out == upsertRecord(kv, c.type, c.id, c.data, ClockIso(now), putWins)
            IN  /\ kv' = out.store
                /\ last' = Call("upsert", c.type, c.id, c.data, out, kv, TRUE)
                /\ UNCHANGED <<now, calls, faults>>

\* deleteRecord(kv, type, id)
DoDelete(P) ==
    \E c \in P.deletes :
        LET out == deleteRecord(kv, c.type, c.id)
        IN  /\ kv' = out.store
            /\ last' = Call("delete", c.type, c.id, EmptyObject, out, kv, TRUE)
            /\ UNCHANGED <<now, calls, faults>>

\* reverseTimeIndexKey(type, field, timestamp, id) built for two timestamps
DoReverseKeys(P) ==
    \E c \in P.keys, t1 \in P.timestamps, t2 \in P.timestamps :
        /\ last' = [op |-> "reverseKeys", type |-> c.type, id |-> c.id, field |-> c.field, t1 |-> t1, t2 |-> t2,
                    r1 |-> getReverseTimestamp(t1), r2 |-> getReverseTimestamp(t2),
                    key1 |-> reverseTimeIndexKey(c.type, c.field, Str(t1), c.id),
                    key2 |-> reverseTimeIndexKey(c.type, c.field, Str(t2), c.id)] @@ Idle
        /\ UNCHANGED <<kv, now, calls, faults>>

\* listAllKeys(kv, prefix, maxKeys) against a store that pages by sizes
DoListKeys(P) ==
    \E c \in P.scans :
        /\ last' = [op |-> "listKeys", prefix |-> c.prefix, maxKeys |-> c.maxKeys, sizes |-> c.sizes,
                    listed |-> listAllKeysPaged(kv, c.prefix, c.maxKeys, c.sizes)] @@ Idle
        /\ UNCHANGED <<kv, now, calls, faults>>

\* tokenize(text, stopwords): the length bounds are the defaults
DoTokenize(P) ==
    \E text \in P.texts, stopwords \in P.stopwordLists :
        /\ last' = [op |-> "tokenize", text |-> text, stopwords |-> stopwords,
                    tokens |-> tokenize(text, stopwords, MinTokenLength, MaxTokenLength)] @@ Idle
        /\ UNCHANGED <<kv, now, calls, faults>>

\* getRecord(kv, type, id)
DoGet(P) ==
    \E c \in P.gets :
        LET got == getRecord(kv, c.type, c.id)
        IN  /\ last' = [op |-> "get", type |-> c.type, id |-> c.id, err |-> got.err,
                        found |-> got.found, value |-> got.value] @@ Idle
            /\ UNCHANGED <<kv, now, calls, faults>>

\* what a query call leaves in last: the options, the result, the number of
\* the page in a chain of calls that pass the cursor back, and the ids of the
\* pages before it
QueryCall(type, options, result, page, seen) ==
    [op |-> "query", type |-> type, options |-> options, result |-> result, err |-> result.err,
     page |-> page, seen |-> seen] @@ Idle

\* executeQuery(kv, type, options)
DoQuery(P) ==
    \E c \in P.queries :
        /\ last' = QueryCall(c.type, c.options, executeQuery(kv, c.type, c.options), 1, <<>>)
        /\ UNCHANGED <<kv, now, calls, faults>>

\* executeQuery(kv, type, { ...options, cursor }) with the cursor of the page
\* before and the options of that call
DoQueryNext(P) ==
    /\ last.op = "query"
    /\ last.err = "none"
    /\ last.result.hasMore
    /\ last.page < P.maxPages
    /\ LET options == [last.options EXCEPT !.cursor = last.result.cursor]
       IN  last' = QueryCall(last.type, options, executeQuery(kv, last.type, options), last.page + 1,
                             last.seen \o RecordIds(last.result.records))
    /\ UNCHANGED <<kv, now, calls, faults>>

\* what a bulk call leaves in last: its arguments and its result
BulkCall(op, type, arguments, out) ==
    arguments @@ [op |-> op, type |-> type, err |-> out.err, nPuts |-> Cardinality(out.puts),
                  nDeletes |-> Cardinality(out.deletes), results |-> out.results,
                  succeeded |-> out.succeeded, failed |-> out.failed] @@ Idle

\* bulkUpsert(kv, type, items)
DoBulkUpsert(P) ==
    \E c \in P.bulkUpserts :
        LET conflict(item) == UpdateConflicts(kv, c.type, JsString(Prop(item, "id")), item, ClockIso(now))
        IN  \E putWins \in SUBSET UNION {conflict(x) : x \in Range(c.items)} :
                LET out == bulkUpsert(kv, c.type, c.items, ClockIso(now), putWins)
                IN  /\ kv' = out.store
                    /\ last' = BulkCall("bulkUpsert", c.type, [items |-> c.items], out)
                    /\ UNCHANGED <<now, calls, faults>>

\* bulkPatch(kv, type, ids, patch)
DoBulkPatch(P) ==
    \E c \in P.bulkPatches :
        LET conflict(id) == PatchConflicts(kv, c.type, id, c.patch, ClockIso(now))
        IN  \E putWins \in SUBSET UNION {conflict(x) : x \in Range(c.ids)} :
                LET out == bulkPatch(kv, c.type, c.ids, c.patch, ClockIso(now), putWins)
                IN  /\ kv' = out.store
                    /\ last' = BulkCall("bulkPatch", c.type, [ids |-> c.ids, patch |-> c.patch], out)
                    /\ UNCHANGED <<now, calls, faults>>

\* bulkDelete(kv, type, ids)
DoBulkDelete(P) ==
    \E c \in P.bulkDeletes :
        LET out == bulkDelete(kv, c.type, c.ids)
        IN  /\ kv' = out.store
            /\ last' = BulkCall("bulkDelete", c.type, [ids |-> c.ids], out)
            /\ UNCHANGED <<now, calls, faults>>

\* the keys that the patches of the records of a query result would both put
\* and delete
MatchedConflicts(store, type, patch, timestamp, queryResult) ==
    UNION {PatchConflicts(store, type, id, patch, timestamp) : id \in Range(RecordIds(queryResult.records))}

\* bulkUpdateWhere(kv, type, andFilters, patch, limit)
DoBulkUpdateWhere(P) ==
    \E c \in P.updateWheres :
        \E putWins \in SUBSET MatchedConflicts(kv, c.type, c.patch, ClockIso(now),
                                             WhereQuery(kv, c.type, c.filters, c.limit)) :
            LET out == bulkUpdateWhere(kv, c.type, c.filters, c.patch, c.limit, ClockIso(now), putWins)
            IN  /\ kv' = out.store
                /\ last' = BulkCall("bulkUpdateWhere", c.type,
                                    [filters |-> c.filters, patch |-> c.patch, limit |-> c.limit], out)
                /\ UNCHANGED <<now, calls, faults>>

\* bulkDeleteWhere(kv, type, andFilters, limit)
DoBulkDeleteWhere(P) ==
    \E c \in P.deleteWheres :
        LET out == bulkDeleteWhere(kv, c.type, c.filters, c.limit)
        IN  /\ kv' = out.store
            /\ last' = BulkCall("bulkDeleteWhere", c.type, [filters |-> c.filters, limit |-> c.limit], out)
            /\ UNCHANGED <<now, calls, faults>>

\* one call of the profile P
Input(type, id, data) == [type |-> type, id |-> id, data |-> data]

----------------------------------------------------------------------------
(* Calls in flight.  A call awaits the store several times: getRecord, the
   write or the delete of the primary key, then the operations of its index
   batch, which IndexBatch.execute issues all at once and the store settles
   one by one in an order of its own; a query resolves its ids and then gets
   the records of its page, one kv.get each.  Between two awaits of one call
   the calls of other callers take steps.  The store may fail an operation
   of an index batch; the call is taken to return when every operation of its
   batch has settled. *)

CallOf(op, type, id, data) == [op |-> op, type |-> type, id |-> id, data |-> data]

InFlight(call) == call.pc \notin {"idle", "done"}

\* some other caller has a call in flight
Busy(p) == \E q \in Procs \ {p} : InFlight(calls[q])

\* the call c of a caller whose call before was prev
Invoked(prev, c, busy, store) ==
    [IdleCall EXCEPT !.op = c.op, !.type = c.type, !.id = c.id, !.data = c.data,
                     !.n = prev.n + 1, !.alone = ~busy, !.raced = prev.raced \/ busy,
                     !.held = IndexConsistentFor(store, c.type, c.id),
                     !.afterFault = prev.failed # {} /\ prev.type = c.type /\ prev.id = c.id]

\* throw new Error(...), or a return before any write
Ended(call, err) == [call EXCEPT !.pc = "return", !.err = err]

\* the size test of createRecord and updateRecord on the record built
ToWrite(call, old, new) ==
    IF TooLarge(new, getTypeConfig(call.type)) THEN Ended(call, "RecordTooLarge")
    ELSE [call EXCEPT !.pc = "write", !.old = old, !.new = new]

\* a call up to its write: the registry, the identifiers, getRecord, the
\* record built with the timestamp of that moment
ReadRecord(call, store, timestamp) ==
    IF ~IsRegistered(call.type) THEN Ended(call, "UnknownType")
    ELSE IF ~validTypeAndId(call.type, call.id) THEN Ended(call, "InvalidIdentifier")
    ELSE CASE call.op = "create" ->
                  IF getRecord(store, call.type, call.id).found THEN Ended(call, "AlreadyExists")
                  ELSE ToWrite(call, NoRecord,
                               BuildRecord(call.data, call.id, call.type, Str(timestamp), Str(timestamp)))
           [] call.op = "update" ->
                  IF ~getRecord(store, call.type, call.id).found THEN Ended(call, "NotFound")
                  ELSE ToWrite(call, getRecord(store, call.type, call.id).value,
                               BuildRecord(call.data, call.id, call.type,
                                           Prop(getRecord(store, call.type, call.id).value, "createdAt"),
                                           Str(timestamp)))
           [] call.op = "delete" ->
                  IF ~getRecord(store, call.type, call.id).found THEN Ended(call, "none")
                  ELSE [call EXCEPT !.pc = "write", !.old = getRecord(store, call.type, call.id).value]

\* the calls in flight after caller p has moved to call: every call that was
\* in flight has been overlapped
Overlapped(p, call) ==
    [q \in Procs |->
        IF q = p THEN call
        ELSE IF InFlight(calls[q]) THEN [calls[q] EXCEPT !.raced = TRUE, !.rivals = Min(@ + 1, 2)]
        ELSE calls[q]]

\* createRecord, updateRecord or deleteRecord is called and runs up to the
\* answer of its getRecord
BeginCall(P) ==
    \E p \in P.procs : \E c \in P.calls[p] :
        /\ ~InFlight(calls[p])
        /\ calls[p].n < P.maxCalls
        /\ calls' = Overlapped(p, ReadRecord(Invoked(calls[p], c, Busy(p), kv), kv, ClockIso(now)))
        /\ UNCHANGED <<kv, now, last, faults>>

\* an updateRecord that puts the keys of the new record and deletes none
IndexBatchOfPutsOnly(call) ==
    CASE call.op = "create" -> createIndexes(call.new, getTypeConfig(call.type))
      [] call.op = "update" -> createIndexes(call.new, getTypeConfig(call.type))
      [] call.op = "delete" -> deleteIndexes(call.old, getTypeConfig(call.type))

\* the index batch that the call builds after its primary write
IndexBatchOf(call) ==
    CASE call.op = "create" -> createIndexes(call.new, getTypeConfig(call.type))
      [] call.op = "update" -> updateIndexes(call.old, call.new, getTypeConfig(call.type))
      [] call.op = "delete" -> deleteIndexes(call.old, getTypeConfig(call.type))

\* the operations that IndexBatch.execute issues
BatchOps(batch) ==
    {[put |-> TRUE, key |-> k] : k \in batch.puts} \cup {[put |-> FALSE, key |-> k] : k \in batch.deletes}

\* kv.put or kv.delete of the primary key; the index batch is built and issued
WritePrimary(P) ==
    \E p \in P.procs :
        /\ calls[p].pc = "write"
        /\ kv' = IF calls[p].op = "delete" THEN KvDelete(kv, objectKey(calls[p].type, calls[p].id))
                 ELSE KvPut(kv, objectKey(calls[p].type, calls[p].id), JsonRoundTrip(calls[p].new))
        /\ calls' = [calls EXCEPT ![p].pc = "index", ![p].ops = BatchOps(IndexBatchOf(calls[p]))]
        /\ UNCHANGED <<now, last, faults>>

\* the store applies one operation of an index batch
ApplyIndexOp(P) ==
    \E p \in P.procs : \E o \in calls[p].ops :
        /\ calls[p].pc = "index"
        /\ kv' = IF o.put THEN KvPut(kv, o.key, "1") ELSE KvDelete(kv, o.key)
        /\ calls' = [calls EXCEPT ![p].ops = @ \ {o}]
        /\ UNCHANGED <<now, last, faults>>

\* an operation failed and its error left uncaught: Promise.all rejects
OpFailedSwallowed(call, o) == [call EXCEPT !.ops = @ \ {o}, !.failed = @ \cup {o}]

\* an operation of the batch is rejected by the store: Promise.all rejects,
\* nothing catches it, the operation is not issued again
OpFailed(call, o) == [call EXCEPT !.ops = @ \ {o}, !.failed = @ \cup {o}, !.err = "StoreFailure"]

\* the store fails one operation of an index batch
FailIndexOp(P) ==
    \E p \in P.procs : \E o \in calls[p].ops :
        /\ calls[p].pc = "index"
        /\ faults < P.maxFaults
        /\ faults' = faults + 1
        /\ calls' = [calls EXCEPT ![p] = OpFailed(calls[p], o)]
        /\ UNCHANGED <<kv, now, last>>

\* what a returned call leaves in last
Returned(p, call) ==
    [op |-> call.op, type |-> call.type, id |-> call.id, data |-> call.data, err |-> call.err,
     proc |-> p, failed |-> call.failed, written |-> call.new, options |-> call.options,
     alone |-> call.alone, held |-> call.held, rivals |-> call.rivals, afterFault |-> call.afterFault]
        @@ Idle

\* the call returns or throws
ReturnCall(P) ==
    \E p \in P.procs :
        /\ calls[p].op \in {"create", "update", "delete"}
        /\ calls[p].pc = "return" \/ (calls[p].pc = "index" /\ calls[p].ops = {})
        /\ calls' = [calls EXCEPT ![p].pc = "done"]
        /\ last' = Returned(p, calls[p])
        /\ UNCHANGED <<kv, now, faults>>

\* the ordered ids that executeQuery resolves on its filtered path
ResolveIdList(store, type, options) ==
    WithSorting(store, type, options,
                WithOrIds(store, type, options, BaseIds(store, type, options, getTypeConfig(type))))

NotFetched == [fetched |-> FALSE, found |-> FALSE, value |-> NoRecord]

\* the page of the resolved ids, no record of it fetched yet
Fetching(call, options, resolved) ==
    [call EXCEPT !.pc = "fetch", !.options = options, !.resolved = resolved,
                 !.ids = Slice0(resolved, QueryLimit(options)),
                 !.got = [i \in 1..Min(QueryLimit(options), Len(resolved)) |-> NotFetched]]

\* a query that ends before it resolves any id: an error
Listed(call, options, result) ==
    [call EXCEPT !.pc = "return", !.options = options, !.result = result, !.err = result.err]

\* listAllRecords after its kv.list: the keys of the page, no record of it
\* fetched yet; cursor, hasMore and the number of keys are those of the page
ListedKeys(call, options, page) ==
    [call EXCEPT !.pc = "fetch", !.fast = TRUE, !.options = options,
                 !.ids = [i \in 1..Len(page.keys) |-> extractIdFromKey(page.keys[i])],
                 !.got = [i \in 1..Len(page.keys) |-> NotFetched],
                 !.result = QueryResult("none", <<>>, ListCursor(page.cursor), ~page.list_complete,
                                        Len(page.keys))]

\* executeQuery up to its fetchRecords, or up to the kv.list of listAllRecords
ResolveIds(call, options, store) ==
    IF \/ ~IsRegistered(call.type)
       \/ options.hasSort /\ options.sort.field \notin Range(getTypeConfig(call.type).timeFields)
    THEN Listed(call, options, executeQuery(store, call.type, options))
    ELSE IF ~options.hasWhere /\ ~options.hasAnd /\ ~options.hasOr /\ options.q = <<>> /\ ~options.hasSort
    THEN ListedKeys(call, options,
                    kvList(store, objectPrefix(call.type), Min(QueryLimit(options), ListPageLimit),
                           CursorPosition(options.cursor)))
    ELSE Fetching(call, options, ResolveIdList(store, call.type, options))

\* executeQuery is called and resolves its ids from the indexes
BeginQuery(P) ==
    \E p \in P.procs : \E c \in P.queries[p] :
        /\ ~InFlight(calls[p])
        /\ calls[p].n < P.maxCalls
        /\ calls' = Overlapped(p, ResolveIds(Invoked(calls[p], CallOf("query", c.type, <<>>, EmptyObject),
                                                     Busy(p), kv),
                                             c.options, kv))
        /\ UNCHANGED <<kv, now, last, faults>>

\* kv.get(objectKey(type, id), 'json'): the record, or null
Fetched(store, type, id) ==
    [fetched |-> TRUE, found |-> objectKey(type, id) \in DOMAIN store,
     value |-> IF objectKey(type, id) \in DOMAIN store THEN store[objectKey(type, id)] ELSE NoRecord]

\* one kv.get of fetchRecords is answered
FetchRecord(P) ==
    \E p \in P.procs : \E i \in DOMAIN calls[p].got :
        /\ calls[p].pc = "fetch"
        /\ ~calls[p].got[i].fetched
        /\ calls' = [calls EXCEPT ![p].got[i] = Fetched(kv, calls[p].type, calls[p].ids[i])]
        /\ UNCHANGED <<kv, now, last, faults>>

\* fetchRecords returning what every kv.get returned, null included
KeepMissing(got) == [i \in DOMAIN got |-> got[i].value]

\* records.filter((r) => r !== null)
DropMissing(got) ==
    [i \in 1..Len(FilterSeq(got, {g \in Range(got) : g.found})) |->
        FilterSeq(got, {g \in Range(got) : g.found})[i].value]

\* the result of listAllRecords: records.filter((r) => r !== null), and
\* count: records.length of the records before the filter
ListedResult(got, page) ==
    QueryResult("none", DropMissing(got), page.cursor, page.hasMore, Len(got))

\* what a returned query leaves in last
QueryReturned(p, call) ==
    [op |-> "query", type |-> call.type, options |-> call.options, err |-> call.err, proc |-> p,
     ids |-> call.ids, fetched |-> call.got, fast |-> call.fast,
     result |-> IF call.pc = "return" THEN call.result
                ELSE IF call.fast THEN ListedResult(call.got, call.result)
                ELSE PageOf(DropMissing(call.got), call.resolved, QueryLimit(call.options)),
     alone |-> call.alone, rivals |-> call.rivals]
        @@ Idle

\* executeQuery returns
ReturnQuery(P) ==
    \E p \in P.procs :
        /\ calls[p].op = "query"
        /\ \/ calls[p].pc = "return"
           \/ calls[p].pc = "fetch" /\ \A i \in DOMAIN calls[p].got : calls[p].got[i].fetched
        /\ calls' = [calls EXCEPT ![p].pc = "done"]
        /\ last' = QueryReturned(p, calls[p])
        /\ UNCHANGED <<kv, now, faults>>

----------------------------------------------------------------------------
(* Inputs.  Data maps and patches over the fields of the task type: values
   whose stringified forms coincide (1 and "1"), a value that extends another
   across the key separator ("a" and "a:b"), an array, two spellings of one
   instant, texts with equal and with different token sets, and maps that
   name envelope fields. *)

MaxClock == 1

s_x == <<"x">>

s_y == <<"y">>

s_1 == <<"1">>

s_a_b == <<"a", ":", "b">>

s_zz == <<"z", "z">>

TextFixBug == <<"f", "i", "x", " ", "b", "u", "g">>

TextFixTheBug == <<"F", "i", "x", " ", "t", "h", "e", " ", "b", "u", "g", "!">>

TextNewBug == <<"n", "e", "w", " ", "b", "u", "g">>

DataA == [status |-> Str(s_a), title |-> Str(TextFixBug)]

DataAB == [status |-> Str(s_a_b), title |-> Str(TextFixTheBug)]

DataNum == [status |-> Num(1), dueDate |-> Str(IsoJan2), title |-> Str(TextNewBug)]

DataStr == [status |-> Str(s_1), dueDate |-> Str(IsoJan2Short)]

DataArr == [assignee |-> Arr(s_x), dueDate |-> Str(IsoJan3)]

DataEnvelope == [id |-> Str(s_zz), type |-> Str(s_user), createdAt |-> Str(IsoJan3), status |-> Str(s_a)]

PatchTitle == [title |-> Str(TextNewBug)]

PatchStatus == [status |-> Str(s_a_b)]

PatchEnvelope == [id |-> Str(s_zz), createdAt |-> Str(IsoJan3), priority |-> Num(1)]

\* one task under a provided id
IndexProfile ==
    [maxClock |-> MaxClock,
     creates |-> {Input(s_task, s_a, d) : d \in {DataA, DataNum, DataArr}},
     updates |-> {Input(s_task, s_a, d) : d \in {DataAB, DataStr}},
     patches |-> {Input(s_task, s_a, d) : d \in {PatchTitle, PatchStatus}},
     upserts |-> {Input(s_task, s_a, DataA)},
     deletes |-> {Input(s_task, s_a, EmptyObject)}]

NextIndex ==
    \/ Tick(IndexProfile)
    \/ DoCreate(IndexProfile)
    \/ DoUpdate(IndexProfile)
    \/ DoPatch(IndexProfile)
    \/ DoUpsert(IndexProfile)
    \/ DoDelete(IndexProfile)

SpecIndex == Init /\ [][NextIndex]_vars

s_nope == <<"n", "o", "p", "e">>

\* a task and a user under one provided id, a task under a generated id, and
\* calls that name an unregistered type or an id outside the safe pattern
CrudProfile ==
    [maxClock |-> MaxClock,
     creates |-> {Input(s_task, s_a, DataA), Input(s_task, s_a, DataEnvelope), Input(s_user, s_a, DataA),
                  Input(s_task, <<>>, DataEnvelope), Input(s_nope, s_a, DataA)},
     updates |-> {Input(s_task, s_a, DataEnvelope)},
     patches |-> {Input(s_task, s_a, PatchEnvelope), Input(s_task, s_a_b, PatchTitle)},
     upserts |-> {Input(s_task, s_a, DataA)},
     deletes |-> {Input(s_task, s_a, EmptyObject), Input(s_user, s_a, EmptyObject),
                  Input(s_task, Head(SortedSeq(GeneratedIds)), EmptyObject)}]

Next ==
    \/ Tick(CrudProfile)
    \/ DoCreate(CrudProfile)
    \/ DoUpdate(CrudProfile)
    \/ DoPatch(CrudProfile)
    \/ DoUpsert(CrudProfile)
    \/ DoDelete(CrudProfile)

Spec == Init /\ [][Next]_vars

----------------------------------------------------------------------------
(* Properties of the derived indexes, checked under SpecIndex. *)

\* the stored record of the latest call, if there is one
Current == IF objectKey(last.type, last.id) \in DOMAIN kv THEN kv[objectKey(last.type, last.id)] ELSE NoRecord

Succeeded(ops) == last.op \in ops /\ last.err = "none"

\* C1: after every call, every stored record R of type T has, for every field
\* F of T.indexedFields whose value is neither undefined nor null, the key
\* idx:T:F:<stringified, truncated R[F]>:R.id, and no other idx:T:F:...:R.id key.
EqualityIndexInvariant == \A R \in StoredRecords(kv) : EqualityHolds(kv, R)

\* C2: after every call, every stored record R of type T has, for every field
\* F of T.searchFields, the key inv:T:F:token:R.id of every token of R[F]
\* (tokenized with T's stopwords), and no inv:T:F:...:R.id key of another token.
InvertedIndexInvariant == \A R \in StoredRecords(kv) : SearchHolds(kv, R)

\* an update or a patch has replaced the tokens "fix", "bug" of a title by others
TokensReplaced ==
    /\ Succeeded({"update", "patch"})
    /\ Prop(last.before, "title") = Str(TextFixBug)
    /\ Prop(Current, "title") # Str(TextFixBug)
    /\ invertedIndexKey(last.type, "title", <<"f", "i", "x">>, last.id) \notin DOMAIN kv
    /\ \/ Prop(Current, "title").t # "str"
       \/ invertedIndexKey(last.type, "title", <<"n", "e", "w">>, last.id) \in DOMAIN kv

\* C3: after every call, every stored record R of type T has, for every field
\* F of T.timeFields with R[F] present, the keys ts:T:F:R[F]:R.id and
\* ts-desc:T:F:<reverse timestamp of R[F]>:R.id, and no other ts: or ts-desc:
\* key of R.id for F.
TimeIndexInvariant == \A R \in StoredRecords(kv) : TimeHolds(kv, R)

\* the ids that executeQuery(type, { where: [{ field, value }] }) returns
IdsWhere(type, field, value) == ResultIds(executeQuery(kv, type, WhereEquals(field, value)))

\* a value that a where filter can carry: string | number | boolean
IsFilterValue(v) == v.t \in {"str", "num", "bool"}

\* C4: a query where F=v includes the id of every record whose indexed field
\* F is v; after a successful updateRecord or patchRecord has changed F from
\* v to a different v2, a query for F=v no longer includes the id and a query
\* for F=v2 includes it.
QueryFollowsIndexedValue ==
    /\ \A R \in StoredRecords(kv) : \A F \in Range(getTypeConfig(RecType(R)).indexedFields) :
           IsFilterValue(Prop(R, F)) => RecId(R) \in IdsWhere(RecType(R), F, Prop(R, F))
    /\ Succeeded({"update", "patch"}) =>
           \A F \in Range(getTypeConfig(last.type).indexedFields) :
               LET v  == Prop(last.before, F)
                   v2 == Prop(Current, F)
               IN  (IsFilterValue(v) /\ IsFilterValue(v2) /\ v # v2) =>
                       /\ last.id \notin IdsWhere(last.type, F, v)
                       /\ last.id \in IdsWhere(last.type, F, v2)

\* the record fields that the engine stamps itself
EnvelopeFields == {"id", "type", "createdAt", "updatedAt"}

\* the index keys of field F of record R, whichever kind of index F has
EntriesOf(R, F) ==
    LET T == RecType(R)
        config == getTypeConfig(T)
    IN  (IF F \in Range(config.indexedFields) /\ IsPresent(Prop(R, F))
         THEN {equalityIndexKey(T, F, TruncatedValue(Prop(R, F), config), RecId(R))} ELSE {})
        \cup (IF F \in Range(config.timeFields) /\ IsPresent(Prop(R, F))
              THEN {timeIndexKey(T, F, Prop(R, F), RecId(R)), reverseTimeIndexKey(T, F, Prop(R, F), RecId(R))}
              ELSE {})
        \cup (IF F \in Range(config.searchFields) /\ Prop(R, F).t = "str"
              THEN {invertedIndexKey(T, F, token, RecId(R)) : token \in tokenizeWith(Prop(R, F).s, config)}
              ELSE {})

\* C10: after a successful patchRecord the record has the patch's value for
\* every key of the patch and the existing value for every other
\* non-envelope key, and the fields that the patch does not name keep their
\* index entries.
PatchIsShallowMerge ==
    Succeeded({"patch"}) =>
        /\ \A F \in DOMAIN last.data : Prop(Current, F) = last.data[F]
        /\ \A F \in (DOMAIN last.before \ DOMAIN last.data) \ EnvelopeFields :
               Prop(Current, F) = last.before[F]
        /\ last.held =>
               \A F \in (DOMAIN last.before \ DOMAIN last.data) \ EnvelopeFields :
                   EntriesOf(last.before, F) \subseteq DOMAIN kv

----------------------------------------------------------------------------
(* Properties of the record operations, checked under Spec. *)

IndexKinds == {s_idx, s_ts, s_ts_desc, s_inv}

\* queries of each path of executeQuery: the plain list, equality filters,
\* a search, a sort
Probes ==
    {NoOptions, WhereEquals("status", Str(s_a)), WhereEquals("status", Num(1)),
     [NoOptions EXCEPT !.q = TextFixBug],
     [NoOptions EXCEPT !.hasOr = TRUE, !.or = <<[field |-> "status", value |-> Str(s_a_b)]>>],
     [NoOptions EXCEPT !.hasSort = TRUE, !.sort = [field |-> "createdAt", direction |-> "desc"]]}

\* a deleteRecord of a stored record whose derived indexes were as the
\* invariant wants them has succeeded
DeletedExisting == Succeeded({"delete"}) /\ last.existed /\ last.held

NoProbeReturnsDeleted ==
    \A options \in Probes : last.id \notin ResultIds(executeQuery(kv, last.type, options))

DeleteIsIdempotent ==
    [][(last'.op = "delete" /\ IsRegistered(last'.type) /\ validTypeAndId(last'.type, last'.id)) =>
           /\ ~last'.existed => (last'.err = "none" /\ last'.nPuts = 0 /\ last'.nDeletes = 0 /\ kv' = kv)
           /\ last'.repeat => (~last'.existed /\ last'.err = "none" /\ kv' = kv)]_vars

\* a deleteRecord has followed the deleteRecord that removed the record
DeletedTwice ==
    /\ Succeeded({"delete"})
    /\ last.repeat
    /\ ~last.existed
    /\ last.nDeletes = 0
    /\ DOMAIN kv # {}

\* what getRecord returns for the id of the latest call
Got == getRecord(kv, last.type, last.id)

\* C7, as stated: after a successful createRecord, getRecord on the returned
\* id returns a record with every input field at its input value, the id,
\* the type, and createdAt equal to updatedAt.
CreateThenGetReturnsInput ==
    Succeeded({"create"}) =>
        /\ Got.found
        /\ \A F \in DOMAIN last.data : Prop(Got.value, F) = last.data[F]
        /\ Prop(Got.value, "id") = Str(last.id)
        /\ Prop(Got.value, "type") = Str(last.type)
        /\ IsPresent(Prop(Got.value, "createdAt"))
        /\ Prop(Got.value, "createdAt") = Prop(Got.value, "updatedAt")

\* C7, amended: after a successful createRecord, getRecord on the returned id
\* returns a record with every input field other than id, type, createdAt
\* and updatedAt at its input value, the returned id, the type of the call,
\* and createdAt equal to updatedAt (both the time of the call).
CreateThenGetReturnsData ==
    Succeeded({"create"}) =>
        /\ Got.found
        /\ \A F \in DOMAIN last.data \ EnvelopeFields : Prop(Got.value, F) = last.data[F]
        /\ Prop(Got.value, "id") = Str(last.id)
        /\ Prop(Got.value, "type") = Str(last.type)
        /\ Prop(Got.value, "createdAt") = Str(ClockIso(now))
        /\ Prop(Got.value, "createdAt") = Prop(Got.value, "updatedAt")

\* a record has been created under a generated id from data that names
\* envelope fields
CreatedFromEnvelopeData ==
    /\ Succeeded({"create"})
    /\ ~last.provided
    /\ last.data = DataEnvelope
    /\ Prop(Got.value, "status") = Str(s_a)
    /\ Prop(Got.value, "id") # last.data["id"]

\* C8: createRecord with a provided id under which a primary record is
\* stored fails with AlreadyExists and leaves the store, the primary record
\* and every index key, unchanged.
CreateExistingFails ==
    [][(last'.op = "create" /\ last'.provided /\ last'.existed) =>
           (last'.err = "AlreadyExists" /\ kv' = kv)]_vars

\* a createRecord has been refused for a stored id
CreateRefused ==
    /\ last.op = "create"
    /\ last.provided
    /\ last.existed
    /\ last.err = "AlreadyExists"
    /\ DerivedKeysOf(kv, last.type, last.id) # {}

\* C9: every stored record has the id and the type of the key it is stored
\* under; a successful updateRecord or patchRecord leaves the id, the type
\* and createdAt of the record as they were, whatever the data or the patch
\* names, and stamps updatedAt with the time of the call.
EnvelopeIsImmutable ==
    /\ \A k \in DOMAIN kv :
           IsObjectKey(k) => k = objectKey(RecType(kv[k]), RecId(kv[k]))
    /\ Succeeded({"update", "patch"}) =>
           /\ Prop(Current, "id") = Prop(last.before, "id")
           /\ Prop(Current, "type") = Prop(last.before, "type")
           /\ Prop(Current, "createdAt") = Prop(last.before, "createdAt")
           /\ Prop(Current, "updatedAt") = Str(ClockIso(now))

\* an update or a patch that names other values for id and createdAt has
\* succeeded, at a later time than the creation
UpdatedWithEnvelopeData ==
    /\ Succeeded({"update", "patch"})
    /\ {"id", "createdAt"} \subseteq DOMAIN last.data
    /\ last.data["id"] # Prop(last.before, "id")
    /\ last.data["createdAt"] # Prop(last.before, "createdAt")
    /\ Prop(Current, "updatedAt") # Prop(Current, "createdAt")

----------------------------------------------------------------------------
(* Calls on a registered and on an unregistered type: single-record calls,
   reads, queries and bulk calls over two task ids. *)

MaxBulkClock == 1

s_b == <<"b">>

ItemA == [id |-> Str(s_a), status |-> Str(s_a), title |-> Str(TextFixBug)]

ItemB == [id |-> Str(s_b), status |-> Str(s_x), title |-> Str(TextNewBug)]

ItemNoId == [status |-> Str(s_a)]

PatchPriority == [priority |-> Num(1)]

StatusIs(v) == <<[field |-> "status", value |-> Str(v)]>>

BulkProfile ==
    [maxClock |-> MaxBulkClock,
     creates |-> {Input(s_task, s_a, DataA), Input(s_nope, s_a, DataA)},
     updates |-> {Input(s_nope, s_a, DataA)},
     patches |-> {Input(s_nope, s_a, PatchTitle)},
     upserts |-> {Input(s_nope, s_a, DataA)},
     deletes |-> {Input(s_nope, s_a, EmptyObject)},
     gets |-> {Input(s_task, s_a, EmptyObject), Input(s_nope, s_a, EmptyObject)},
     queries |-> {[type |-> s_nope, options |-> NoOptions],
                  [type |-> s_nope, options |-> WhereEquals("status", Str(s_a))],
                  [type |-> s_task, options |-> WhereEquals("status", Str(s_a))]},
     bulkUpserts |-> {[type |-> s_task, items |-> <<ItemA, ItemNoId, ItemB>>],
                      [type |-> s_nope, items |-> <<ItemA>>]},
     bulkPatches |-> {[type |-> s_task, ids |-> <<s_a, s_b>>, patch |-> PatchPriority],
                      [type |-> s_nope, ids |-> <<s_a>>, patch |-> PatchPriority]},
     bulkDeletes |-> {[type |-> s_task, ids |-> <<s_b, s_a>>],
                      [type |-> s_nope, ids |-> <<s_a>>]},
     updateWheres |-> {[type |-> s_task, filters |-> StatusIs(s_a), patch |-> PatchStatus, limit |-> 0],
                       [type |-> s_nope, filters |-> StatusIs(s_a), patch |-> PatchStatus, limit |-> 0]},
     deleteWheres |-> {[type |-> s_task, filters |-> StatusIs(s_x), limit |-> 0],
                       [type |-> s_nope, filters |-> StatusIs(s_a), limit |-> 0]}]

NextBulk ==
    \/ Tick(BulkProfile)
    \/ DoCreate(BulkProfile)
    \/ DoUpdate(BulkProfile)
    \/ DoPatch(BulkProfile)
    \/ DoUpsert(BulkProfile)
    \/ DoDelete(BulkProfile)
    \/ DoGet(BulkProfile)
    \/ DoQuery(BulkProfile)
    \/ DoBulkUpsert(BulkProfile)
    \/ DoBulkPatch(BulkProfile)
    \/ DoBulkDelete(BulkProfile)
    \/ DoBulkUpdateWhere(BulkProfile)
    \/ DoBulkDeleteWhere(BulkProfile)

SpecBulk == Init /\ [][NextBulk]_vars

----------------------------------------------------------------------------
(* Properties of calls that name an unregistered type, checked under SpecBulk. *)

\* C11: getRecord called with a type that is not registered fails with
\* UnknownType.
GetUnregisteredFails == (last.op = "get" /\ ~IsRegistered(last.type)) => last.err = "UnknownType"

\* the calls that take a type and may write
TypedOps ==
    {"create", "update", "patch", "upsert", "delete", "query",
     "bulkUpsert", "bulkPatch", "bulkDelete", "bulkUpdateWhere", "bulkDeleteWhere"}

----------------------------------------------------------------------------
(* Queries over three tasks a, b, c created at times of the caller's choice:
   equality filters (ANDed, ORed, both), search text with and without
   filters, sorting with and without a limit, and pages of a plain list and
   of a filtered query, each followed by calls that pass the cursor back. *)

MaxQueryClock == 2

MaxPages == 3

s_c == <<"c">>

TextNew == <<"n", "e", "w">>

TextFixThe == <<"F", "i", "x", " ", "t", "h", "e">>

DataQa == [status |-> Str(s_a), priority |-> Num(1), title |-> Str(TextFixBug), dueDate |-> Str(IsoJan2Short)]

DataQb == [status |-> Str(s_a), priority |-> Num(2), title |-> Str(TextNewBug),
           description |-> Str(TextFixTheBug), dueDate |-> Str(IsoJan2Half)]

DataQc == [status |-> Str(s_x), priority |-> Num(1), title |-> Str(TextFixThe), dueDate |-> Str(IsoJan3)]

PriorityIs(n) == <<[field |-> "priority", value |-> Num(n)]>>

SortBy(field, direction) == [NoOptions EXCEPT !.hasSort = TRUE, !.sort = [field |-> field, direction |-> direction]]

QueryProbes ==
    {[NoOptions EXCEPT !.hasWhere = TRUE, !.where = StatusIs(s_a), !.hasAnd = TRUE, !.and = PriorityIs(1),
                       !.hasOr = TRUE, !.or = StatusIs(s_x)],
     [NoOptions EXCEPT !.hasAnd = TRUE, !.and = PriorityIs(1), !.hasOr = TRUE, !.or = PriorityIs(2) \o StatusIs(s_x)],
     [NoOptions EXCEPT !.hasOr = TRUE, !.or = StatusIs(s_x)],
     [NoOptions EXCEPT !.q = TextNewBug],
     [NoOptions EXCEPT !.q = TextFixThe, !.hasSearchFields = TRUE, !.searchFields = <<"title">>],
     [NoOptions EXCEPT !.q = TextNew, !.hasWhere = TRUE, !.where = StatusIs(s_x)],
     SortBy("dueDate", "asc"),
     SortBy("createdAt", "desc"),
     [SortBy("createdAt", "desc") EXCEPT !.limit = 2],
     [NoOptions EXCEPT !.limit = 1],
     [WhereEquals("status", Str(s_a)) EXCEPT !.limit = 1]}

QueryProfile ==
    [maxClock |-> MaxQueryClock,
     maxPages |-> MaxPages,
     creates |-> {Input(s_task, s_a, DataQa), Input(s_task, s_b, DataQb), Input(s_task, s_c, DataQc)},
     queries |-> {[type |-> s_task, options |-> o] : o \in QueryProbes}]

NextQuery ==
    \/ Tick(QueryProfile)
    \/ DoCreate(QueryProfile)
    \/ DoQuery(QueryProfile)
    \/ DoQueryNext(QueryProfile)

SpecQuery == Init /\ [][NextQuery]_vars

----------------------------------------------------------------------------
(* Properties of executeQuery, checked under SpecQuery.  The records that a
   criterion selects are read off the stored records themselves, not off the
   index keys. *)

\* the latest call is a query that returned
Queried == last.op = "query" /\ last.err = "none"

\* the AND filters (where and and together) and the OR filters of the latest query
AndFiltersOf(options) == options.where \o options.and

OrFiltersOf(options) == IF options.hasOr THEN options.or ELSE <<>>

\* the stored records of the queried type
Stored == {R \in StoredRecords(kv) : RecType(R) = last.type}

\* the ids of the stored records whose field has the value of the filter
MatchesFilter(R, filter) ==
    IsPresent(Prop(R, filter.field)) /\ JsString(Prop(R, filter.field)) = JsString(filter.value)

FilterIds(filter) == {RecId(R) : R \in {S \in Stored : MatchesFilter(S, filter)}}

AllOf(filters) == {RecId(R) : R \in {S \in Stored : \A i \in 1..Len(filters) : MatchesFilter(S, filters[i])}}

AnyOf(filters) == UNION {FilterIds(filters[i]) : i \in 1..Len(filters)}

\* C13: for a query with AND filters A (where and and together), OR filters
\* O and no search text, the ids of the result are the intersection of the
\* id sets of A united with the union of the id sets of O.
AndOrResolution ==
    (/\ Queried
     /\ last.options.q = <<>>
     /\ ~last.options.hasSort
     /\ Len(AndFiltersOf(last.options)) > 0
     /\ ~last.result.hasMore)
        => ResultIds(last.result) = AllOf(AndFiltersOf(last.options)) \cup AnyOf(OrFiltersOf(last.options))

\* a query with two AND filters and an OR filter has returned a record that
\* only the AND filters select and one that only the OR filter selects, and
\* has left out a record that one AND filter selects
AndOrQueried ==
    /\ Queried
    /\ last.options.q = <<>>
    /\ Len(AndFiltersOf(last.options)) = 2
    /\ Len(OrFiltersOf(last.options)) = 1
    /\ ResultIds(last.result) \ AnyOf(OrFiltersOf(last.options)) # {}
    /\ ResultIds(last.result) \ AllOf(AndFiltersOf(last.options)) # {}
    /\ FilterIds(AndFiltersOf(last.options)[1]) \ ResultIds(last.result) # {}

\* C14: a query with OR filters only returns exactly the records that at
\* least one OR filter selects.
OrOnlyResolution ==
    (/\ Queried
     /\ last.options.q = <<>>
     /\ ~last.options.hasSort
     /\ Len(AndFiltersOf(last.options)) = 0
     /\ Len(OrFiltersOf(last.options)) > 0
     /\ ~last.result.hasMore)
        => ResultIds(last.result) = AnyOf(OrFiltersOf(last.options))

\* the fields that the latest query searches: the override, else the
\* configured ones
SearchedFields(options) ==
    IF options.hasSearchFields THEN Range(options.searchFields)
    ELSE Range(getTypeConfig(last.type).searchFields)

\* the indexed tokens of field F of record R: those of a string value of a
\* configured search field
IndexedTokens(R, F) ==
    IF F \in Range(getTypeConfig(last.type).searchFields) /\ Prop(R, F).t = "str"
    THEN tokenizeWith(Prop(R, F).s, getTypeConfig(last.type))
    ELSE {}

\* the ids of the stored records with at least one token of the text among
\* the indexed tokens of at least one searched field
SearchMatches(options) ==
    {RecId(R) : R \in {S \in Stored : \E F \in SearchedFields(options) :
                          tokenizeWith(options.q, getTypeConfig(last.type)) \cap IndexedTokens(S, F) # {}}}

\* C15: a query with search text S and no filters returns a record exactly
\* when at least one token of S is among the indexed tokens of at least one
\* searched field of the record (any-token semantics).
SearchIsAnyToken ==
    (/\ Queried
     /\ last.options.q # <<>>
     /\ Len(AndFiltersOf(last.options)) = 0
     /\ Len(OrFiltersOf(last.options)) = 0
     /\ ~last.options.hasSort
     /\ ~last.result.hasMore)
        => ResultIds(last.result) = SearchMatches(last.options)

\* a search for two tokens has returned a record that holds only one of them
\* and has left out a stored record
SearchedTwoTokens ==
    /\ Queried
    /\ Cardinality(tokenizeWith(last.options.q, getTypeConfig(last.type))) = 2
    /\ Len(AndFiltersOf(last.options)) = 0
    /\ \E R \in Stored :
          /\ RecId(R) \in ResultIds(last.result)
          /\ \E token \in tokenizeWith(last.options.q, getTypeConfig(last.type)) :
                \A F \in SearchedFields(last.options) : token \notin IndexedTokens(R, F)
    /\ \E R \in Stored : RecId(R) \notin ResultIds(last.result)

\* C16: a query with both equality filters and search text returns only the
\* records that satisfy both: the filters and the search.
SearchAndFiltersIntersect ==
    (/\ Queried
     /\ last.options.q # <<>>
     /\ Len(AndFiltersOf(last.options)) > 0
     /\ ~last.result.hasMore)
        => ResultIds(last.result) \subseteq AllOf(AndFiltersOf(last.options)) \cap SearchMatches(last.options)

\* the instant of the time field T of record R, in milliseconds
TimeOf(R, T) == DateGetTime(JsString(Prop(R, T))).ms

\* R comes no later than S in the direction of the sort
NotAfter(R, S, sort) ==
    IF sort.direction = "asc" THEN ~DigitsLess(TimeOf(S, sort.field), TimeOf(R, sort.field))
    ELSE ~DigitsLess(TimeOf(R, sort.field), TimeOf(S, sort.field))

\* C17: the records of a query sorted on time field T are in nondecreasing
\* order of T for asc and in nonincreasing order of T for desc.
SortedByTimeField ==
    (Queried /\ last.options.hasSort)
        => \A i, j \in 1..Len(last.result.records) :
              i < j => NotAfter(last.result.records[i], last.result.records[j], last.options.sort)

\* the stored records that have the sort field
WithSortField(sort) == {R \in Stored : Truthy(Prop(R, sort.field))}

\* C18: a sorted query with limit L and no filter returns the L first of all
\* records in the sort order: as many records as the limit allows, none of
\* them after a record that is left out.
SortLimitTakesFirstOfAll ==
    (/\ Queried
     /\ last.options.hasSort
     /\ last.options.q = <<>>
     /\ Len(AndFiltersOf(last.options)) = 0
     /\ Len(OrFiltersOf(last.options)) = 0
     /\ last.page = 1)
        => /\ Len(last.result.records)
                = Min(QueryLimit(last.options), Cardinality(WithSortField(last.options.sort)))
           /\ \A i \in 1..Len(last.result.records) :
                 \A S \in WithSortField(last.options.sort) :
                    RecId(S) \notin ResultIds(last.result)
                       => NotAfter(last.result.records[i], S, last.options.sort)

\* the ordered id list that the latest query resolves its options to: the
\* search or the filters, the OR filters added, the sort applied
ResolvedIds(options) ==
    WithSorting(kv, last.type, options,
                WithOrIds(kv, last.type, options,
                          BaseIds(kv, last.type, options, getTypeConfig(last.type))))

\* the limit in force: L, 50 without one, at most 200
LimitInForce(options) == Min(IF options.limit = 0 THEN 50 ELSE options.limit, 200)

CursorAdvances ==
    (Queried /\ last.page > 1)
        => Range(RecordIds(last.result.records)) \cap Range(last.seen) = {}

----------------------------------------------------------------------------
(* Bulk calls over two tasks a and b: lists with an item that fails between
   items that succeed, lists of more than MaxBulkItems items, and the where
   forms with a limit below the number of matches, with limit 0 and with no
   filter at all. *)

MaxBatchClock == 1

\* MaxBulkItems + 1 times the same id, the same item
ManyIds == [i \in 1..(MaxBulkItems + 1) |-> s_a]

ManyItems == [i \in 1..(MaxBulkItems + 1) |-> ItemA]

BatchProfile ==
    [maxClock |-> MaxBatchClock,
     creates |-> {Input(s_task, s_a, DataA), Input(s_task, s_b, DataA)},
     bulkUpserts |-> {[type |-> s_task, items |-> <<ItemA, ItemNoId, ItemB>>],
                      [type |-> s_task, items |-> ManyItems]},
     bulkPatches |-> {[type |-> s_task, ids |-> <<s_a, s_zz, s_b>>, patch |-> PatchPriority],
                      [type |-> s_task, ids |-> ManyIds, patch |-> PatchPriority]},
     bulkDeletes |-> {[type |-> s_task, ids |-> <<s_b, s_a_b, s_a>>],
                      [type |-> s_task, ids |-> ManyIds]},
     updateWheres |-> {[type |-> s_task, filters |-> StatusIs(s_a), patch |-> PatchPriority, limit |-> n] :
                          n \in {0, 1}}
                      \cup {[type |-> s_task, filters |-> <<>>, patch |-> PatchPriority, limit |-> 1]},
     deleteWheres |-> {[type |-> s_task, filters |-> StatusIs(s_a), limit |-> n] : n \in {0, 1}}
                      \cup {[type |-> s_task, filters |-> <<>>, limit |-> 1]}]

NextBatch ==
    \/ Tick(BatchProfile)
    \/ DoCreate(BatchProfile)
    \/ DoBulkUpsert(BatchProfile)
    \/ DoBulkPatch(BatchProfile)
    \/ DoBulkDelete(BatchProfile)
    \/ DoBulkUpdateWhere(BatchProfile)
    \/ DoBulkDeleteWhere(BatchProfile)

SpecBatch == Init /\ [][NextBatch]_vars

----------------------------------------------------------------------------
(* Properties of the bulk operations, checked under SpecBatch.  They compare
   the store a call found (kv) with the store it left (kv'). *)

ListOps == {"bulkUpsert", "bulkPatch", "bulkDelete"}

WhereOps == {"bulkUpdateWhere", "bulkDeleteWhere"}

\* the input list of a bulk call
BulkInput(call) == IF call.op = "bulkUpsert" THEN call.items ELSE call.ids

\* the id that the result of input item i is to carry
BulkInputId(call, i) ==
    IF call.op # "bulkUpsert" THEN call.ids[i]
    ELSE IF Truthy(Prop(call.items[i], "id")) THEN JsString(Prop(call.items[i], "id")) ELSE s_unknown

\* the single-record operation of input item i succeeds on the store before
BulkItemSucceeds(call, before, i) ==
    /\ call.op = "bulkUpsert" => Truthy(Prop(call.items[i], "id"))
    /\ validTypeAndId(call.type, BulkInputId(call, i))
    /\ call.op = "bulkPatch" => objectKey(call.type, BulkInputId(call, i)) \in DOMAIN before

\* the store after holds what input item i asks for
BulkItemApplied(call, after, i) ==
    LET key == objectKey(call.type, BulkInputId(call, i))
    IN  CASE call.op = "bulkDelete" -> key \notin DOMAIN after
          [] call.op = "bulkPatch"  ->
                 /\ key \in DOMAIN after
                 /\ \A f \in DOMAIN call.patch : Prop(after[key], f) = call.patch[f]
          [] call.op = "bulkUpsert" ->
                 /\ key \in DOMAIN after
                 /\ \A f \in DOMAIN call.items[i] \ EnvelopeFields : Prop(after[key], f) = call.items[i][f]

\* the primary keys whose record the call created, changed or removed
ModifiedKeys(before, after) ==
    {k \in DOMAIN before \cup DOMAIN after :
        /\ IsObjectKey(k)
        /\ k \notin DOMAIN before \/ k \notin DOMAIN after \/ before[k] # after[k]}

\* C22: bulkUpsert, bulkPatch and bulkDelete return one result per input item,
\* in input order; an item whose single-record operation fails is reported
\* ok = false, every other item is reported ok = true and is applied to the
\* store; succeeded + failed is the number of input items.
BulkFailureIsolation ==
    [][(last'.op \in ListOps /\ last'.err = "none")
          => /\ Len(last'.results) = Len(BulkInput(last'))
             /\ last'.succeeded + last'.failed = Len(BulkInput(last'))
             /\ last'.succeeded = Cardinality({i \in DOMAIN last'.results : last'.results[i].ok})
             /\ \A i \in DOMAIN BulkInput(last') :
                    /\ last'.results[i].id = BulkInputId(last', i)
                    /\ last'.results[i].ok <=> BulkItemSucceeds(last', kv, i)
                    /\ last'.results[i].ok => BulkItemApplied(last', kv', i)]_vars

\* a bulkPatch of three ids has failed on the second, which does not exist,
\* and patched the first and the third
PatchedAroundMissingId ==
    /\ last.op = "bulkPatch"
    /\ Len(last.results) = 3
    /\ last.results[1].ok /\ ~last.results[2].ok /\ last.results[3].ok
    /\ \A i \in {1, 3} : Prop(kv[objectKey(last.type, last.ids[i])], "priority") = Num(1)
    /\ objectKey(last.type, last.ids[2]) \notin DOMAIN kv

\* C23: bulkUpsert, bulkPatch and bulkDelete called on a registered type with
\* more than 100 items fail with TooManyItems before any item is processed:
\* no result is produced, no key is put or deleted and the store is the one
\* the call found.
OversizedBulkRefused ==
    [][(last'.op \in ListOps /\ IsRegistered(last'.type) /\ Len(BulkInput(last')) > 100)
          => /\ last'.err = "TooManyItems"
             /\ last'.results = <<>>
             /\ last'.nPuts = 0 /\ last'.nDeletes = 0
             /\ kv' = kv]_vars

\* a list of 101 ids that name a stored record was handed to bulkPatch
OversizedPatchOfStored ==
    /\ last.op = "bulkPatch"
    /\ Len(last.ids) = 101
    /\ \A i \in DOMAIN last.ids : objectKey(last.type, last.ids[i]) \in DOMAIN kv

\* C24: bulkUpdateWhere and bulkDeleteWhere modify at most limit records, for
\* every limit >= 0, and return normally.
WhereLimitIsCap ==
    [][last'.op \in WhereOps
          => /\ last'.err = "none"
             /\ Cardinality(ModifiedKeys(kv, kv')) <= last'.limit]_vars

\* C30: bulkUpdateWhere and bulkDeleteWhere called with an empty list of AND
\* filters modify no record.
NoFilterModifiesNothing ==
    [][(last'.op \in WhereOps /\ last'.filters = <<>>) => ModifiedKeys(kv, kv') = {}]_vars

----------------------------------------------------------------------------
(* Properties of the index batch of an update and of the key builders,
   checked under SpecIndex. *)

\* C28: within one updateIndexes batch no key is both deleted and put, so the
\* store after the batch does not depend on the order in which its puts and
\* deletes are applied; for every old and new record, values with one
\* stringified form and time values of one instant included.
UpdateBatchIsOrderFree ==
    [][/\ (last'.op \in {"update", "upsert"} /\ last'.err = "none")
            => UpdateConflicts(kv, last'.type, last'.id, last'.data, ClockIso(now)) = {}
       /\ (last'.op = "patch" /\ last'.err = "none")
            => PatchConflicts(kv, last'.type, last'.id, last'.data, ClockIso(now)) = {}]_vars

\* the strings that a query may name as the value of an indexed field
ScanValues == {s_a, s_a_b, s_1, s_x}

\* the stored records of type T whose stringified, truncated value of F is v
RecordsWithValue(T, F, v) ==
    {R \in StoredRecords(kv) :
        /\ RecType(R) = T
        /\ IsPresent(Prop(R, F))
        /\ TruncatedValue(Prop(R, F), getTypeConfig(T)) = Str(v)}

\* C29: for every type T, field F and string v, a ':' in v included, the only
\* keys under the prefix idx:T:F:v: are the equality keys of the records whose
\* stringified, truncated value of F is exactly v, and a query where F=v
\* returns no record whose F has a different value.
PrefixScanIsExact ==
    \A T \in {s_task} : \A F \in Range(getTypeConfig(T).indexedFields) : \A v \in ScanValues :
        /\ \A k \in DOMAIN kv :
               StartsWith(k, equalityIndexPrefix(T, F, Str(v)))
                   => \E R \in RecordsWithValue(T, F, v) : k = equalityIndexKey(T, F, Str(v), RecId(R))
        /\ IdsWhere(T, F, Str(v)) \subseteq {RecId(R) : R \in RecordsWithValue(T, F, v)}

----------------------------------------------------------------------------
(* One caller and a store that fails index operations: creates, updates that
   keep and that change the indexed value, and deletes of one task, called
   one after the other at times of the caller's choice. *)

MaxFaultClock == 1

MaxFaultCalls == 3

MaxFaults == 1

DataStatusA == [status |-> Str(s_a)]

DataStatusX == [status |-> Str(s_x)]

FaultProfile ==
    [maxClock |-> MaxFaultClock,
     procs |-> {1},
     maxCalls |-> MaxFaultCalls,
     maxFaults |-> MaxFaults,
     calls |-> 1 :> {CallOf("create", s_task, s_a, DataStatusA),
                     CallOf("update", s_task, s_a, DataStatusA),
                     CallOf("update", s_task, s_a, DataStatusX),
                     CallOf("delete", s_task, s_a, EmptyObject)}]

NextFault ==
    \/ Tick(FaultProfile)
    \/ BeginCall(FaultProfile)
    \/ WritePrimary(FaultProfile)
    \/ ApplyIndexOp(FaultProfile)
    \/ FailIndexOp(FaultProfile)
    \/ ReturnCall(FaultProfile)

SpecFault == Init /\ [][NextFault]_vars

----------------------------------------------------------------------------
(* Properties of calls whose index batch fails, checked under SpecFault. *)

\* the latest call is a createRecord, updateRecord or deleteRecord that has
\* returned or thrown, and its caller has not called again
Mutated ==
    /\ last.op \in {"create", "update", "delete"}
    /\ "proc" \in DOMAIN last
    /\ calls[last.proc].pc = "done"

NextWriteRestoresIndexes ==
    (Mutated /\ last.op \in {"update", "delete"} /\ last.err = "none" /\ last.afterFault)
        => IndexConsistentFor(kv, last.type, last.id)

----------------------------------------------------------------------------
(* Two callers and a store that never fails.  The first creates a task,
   updates it and queries for its first value; the second updates it to
   another value and deletes it.  Every call of one caller is free to run between two
   awaits of a call of the other. *)

MaxRaceCalls == 2

DataStatusY == [status |-> Str(s_y)]

RaceProfile ==
    [procs |-> Procs,
     maxCalls |-> MaxRaceCalls,
     maxFaults |-> 0,
     calls |-> 1 :> {CallOf("create", s_task, s_a, DataStatusA), CallOf("update", s_task, s_a, DataStatusX)}
               @@ 2 :> {CallOf("update", s_task, s_a, DataStatusY), CallOf("delete", s_task, s_a, EmptyObject)},
     queries |-> 1 :> {[type |-> s_task, options |-> WhereEquals("status", Str(s_a))]} @@ 2 :> {}]

NextRace ==
    \/ BeginCall(RaceProfile)
    \/ WritePrimary(RaceProfile)
    \/ ApplyIndexOp(RaceProfile)
    \/ ReturnCall(RaceProfile)
    \/ BeginQuery(RaceProfile)
    \/ FetchRecord(RaceProfile)
    \/ ReturnQuery(RaceProfile)

SpecRace == Init /\ [][NextRace]_vars

----------------------------------------------------------------------------
(* Properties of concurrent calls, checked under SpecRace. *)

\* the latest call is a query that resolved ids from the indexes and returned
Hydrated == last.op = "query" /\ "fetched" \in DOMAIN last /\ ~last.fast /\ Len(last.ids) > 0

\* the ids of the page whose kv.get found a record
FoundIds(call) == {call.ids[i] : i \in {k \in DOMAIN call.fetched : call.fetched[k].found}}

\* C21: if a record whose id was resolved from an index is deleted by a
\* concurrent deleteRecord before it is fetched, executeQuery still returns
\* without error, its records hold no null entry, and the id is left out:
\* the records are those of the ids that were found, in the order of the page.
HydrationDropsMissing ==
    Hydrated
        => /\ last.err = "none"
           /\ \A j \in DOMAIN last.result.records : last.result.records[j] # NoRecord
           /\ RecordIds(last.result.records) = FilterSeq(last.ids, FoundIds(last))
           /\ last.result.count = Len(last.result.records)

\* a query has returned without a record whose id it had resolved: a
\* deleteRecord of that id, begun while the query was in flight or the query
\* begun while it was, had deleted the primary key before the kv.get
QueryMissedDeletedRecord ==
    /\ Hydrated
    /\ ~last.alone \/ last.rivals > 0
    /\ \E i \in DOMAIN last.ids :
           /\ ~last.fetched[i].found
           /\ last.ids[i] \notin Range(RecordIds(last.result.records))
           /\ \E q \in Procs \ {last.proc} : calls[q].op = "delete" /\ calls[q].id = last.ids[i]

\* the (type, id) pairs that the callers write
WrittenIds == {[type |-> c.type, id |-> c.id] : c \in UNION {RaceProfile.calls[p] : p \in Procs}}

\* C27: concurrent writers can race.  As long as no call has overlapped
\* another and no store operation has failed, the derived-index invariant
\* holds whenever no call is in flight; the state RacedWritersBrokeIndexes,
\* reached by an interleaving of two mutating calls on one (type, id), each
\* completing without error, violates it.
OnlyOverlappingCallsBreakIndexes ==
    (/\ faults = 0
     /\ \A p \in Procs : ~InFlight(calls[p]) /\ ~calls[p].raced)
        => \A w \in WrittenIds : IndexConsistentFor(kv, w.type, w.id)

\* two calls on one (type, id), an updateRecord and an updateRecord or a
\* deleteRecord, have both completed without error and without a store
\* failure; the first began with no other call in flight and the invariant
\* in place, the second began while the first was in flight, no third call
\* ran meanwhile; the index keys of the id are not those of the stored record
RacedWritersBrokeIndexes ==
    /\ faults = 0
    /\ \A p \in Procs :
           /\ calls[p].pc = "done"
           /\ calls[p].err = "none"
           /\ calls[p].failed = {}
           /\ calls[p].op \in {"update", "delete"}
    /\ \A p, q \in Procs : calls[p].type = calls[q].type /\ calls[p].id = calls[q].id
    /\ \E p \in Procs : calls[p].op = "update"
    /\ \E p \in Procs :
           /\ calls[p].alone /\ calls[p].held /\ calls[p].rivals = 1
           /\ \A q \in Procs \ {p} : ~calls[q].alone /\ calls[q].rivals = 0
    /\ \E p \in Procs : ~IndexConsistentFor(kv, calls[p].type, calls[p].id)

----------------------------------------------------------------------------
(* AND resolution over the tasks a, b, c: every list without repetition of
   one to three of four equality filters, whose id sets have sizes 2, 2, 1
   and 1, two of them disjoint. *)

MaxAndClock == 1

AndFilterPool ==
    {[field |-> "status", value |-> Str(s_a)], [field |-> "status", value |-> Str(s_x)],
     [field |-> "priority", value |-> Num(1)], [field |-> "priority", value |-> Num(2)]}

AndFilterLists ==
    {fs \in UNION {[1..n -> AndFilterPool] : n \in 1..3} : \A i, j \in DOMAIN fs : fs[i] = fs[j] => i = j}

AndProfile ==
    [maxClock |-> MaxAndClock,
     creates |-> {Input(s_task, s_a, DataQa), Input(s_task, s_b, DataQb), Input(s_task, s_c, DataQc)},
     queries |-> {[type |-> s_task, options |-> [NoOptions EXCEPT !.hasAnd = TRUE, !.and = fs]] :
                     fs \in AndFilterLists}]

NextAnd ==
    \/ Tick(AndProfile)
    \/ DoCreate(AndProfile)
    \/ DoQuery(AndProfile)

SpecAnd == Init /\ [][NextAnd]_vars

\* the id set that the index gives for one filter
IdSetOf(filter) == Range(getIdsForEqualityFilter(kv, last.type, filter.field, filter.value))

\* the plain intersection of the id sets of the filters
PlainIntersection(filters) == {id \in IdSetOf(filters[1]) : \A i \in DOMAIN filters : id \in IdSetOf(filters[i])}

\* the orders in which a list of filters can be given
Reorderings(filters) ==
    {[i \in DOMAIN filters |-> filters[p[i]]] :
        p \in {q \in [DOMAIN filters -> DOMAIN filters] : \A i, j \in DOMAIN filters : q[i] = q[j] => i = j}}

----------------------------------------------------------------------------
(* Two callers on one id and a store that never fails.  Both create the
   task a with a provided id, each with a status of its own; the first lists
   the tasks and queries them by status, the second deletes the task. *)

MaxOverlapCalls == 2

OverlapProfile ==
    [procs |-> Procs,
     maxCalls |-> MaxOverlapCalls,
     maxFaults |-> 0,
     calls |-> 1 :> {CallOf("create", s_task, s_a, DataStatusA)}
               @@ 2 :> {CallOf("create", s_task, s_a, DataStatusX), CallOf("delete", s_task, s_a, EmptyObject)},
     queries |-> 1 :> {[type |-> s_task, options |-> NoOptions],
                       [type |-> s_task, options |-> WhereEquals("status", Str(s_a))]}
                 @@ 2 :> {}]

NextOverlap ==
    \/ BeginCall(OverlapProfile)
    \/ WritePrimary(OverlapProfile)
    \/ ApplyIndexOp(OverlapProfile)
    \/ ReturnCall(OverlapProfile)
    \/ BeginQuery(OverlapProfile)
    \/ FetchRecord(OverlapProfile)
    \/ ReturnQuery(OverlapProfile)

SpecOverlap == Init /\ [][NextOverlap]_vars

\* the first call of each caller was a createRecord, and both have returned
\* or thrown
BothCreated ==
    \A p \in Procs : calls[p].op = "create" /\ calls[p].pc = "done" /\ calls[p].n = 1

\* C32: of two concurrent createRecord calls with the same provided id at
\* most one returns; the other fails with AlreadyExists, and the stored
\* record and its index keys are those of the call that returned.
OneCreateWins ==
    (BothCreated /\ \A p, q \in Procs : calls[p].type = calls[q].type /\ calls[p].id = calls[q].id)
        => \E p \in Procs :
              /\ calls[p].err = "none"
              /\ \A q \in Procs \ {p} : calls[q].err = "AlreadyExists"
              /\ kv[objectKey(calls[p].type, calls[p].id)] = JsonRoundTrip(calls[p].new)
              /\ IndexConsistentFor(kv, calls[p].type, calls[p].id)

\* C35: in every QueryResult, of the plain list and of a filtered query,
\* count is the number of entries of records, also when a listed record is
\* deleted by a concurrent call before it is fetched.
CountIsRecordsLength ==
    (last.op = "query" /\ last.err = "none") => last.result.count = Len(last.result.records)

----------------------------------------------------------------------------
(* The difference that updateIndexes applies, checked under SpecIndex. *)

\* the index keys that a record implies
ImpliedKeys(record, config) == createIndexes(record, config).puts

\* the batch deletes only keys that the old record implies and the new one
\* does not, and puts only keys that the new record implies and the old one
\* does not
IsMinimalBatch(batch, oldRecord, newRecord, config) ==
    /\ batch.deletes \subseteq ImpliedKeys(oldRecord, config) \ ImpliedKeys(newRecord, config)
    /\ batch.puts \subseteq ImpliedKeys(newRecord, config) \ ImpliedKeys(oldRecord, config)

\* the record that an update of the stored record with data writes
UpdatedRecord(store, type, id, data, timestamp) ==
    BuildRecord(data, id, type, Prop(store[objectKey(type, id)], "createdAt"), Str(timestamp))

\* C33: updateIndexes is minimal: it deletes only keys implied by the old
\* record and not by the new one and puts only keys implied by the new
\* record and not by the old one, so a field whose key is the same in both
\* records, and a token present in both, gets no put and no delete.
UpdateBatchIsMinimal ==
    [][/\ (last'.op \in {"update", "upsert"} /\ last'.err = "none" /\ last'.existed)
            => IsMinimalBatch(updateBatch(kv, last'.type, last'.id, last'.data, ClockIso(now)),
                              last'.before,
                              UpdatedRecord(kv, last'.type, last'.id, last'.data, ClockIso(now)),
                              getTypeConfig(last'.type))
       /\ (last'.op = "patch" /\ last'.err = "none")
            => IsMinimalBatch(updateBatch(kv, last'.type, last'.id, Spread(last'.before, last'.data),
                                          ClockIso(now)),
                              last'.before,
                              UpdatedRecord(kv, last'.type, last'.id, Spread(last'.before, last'.data),
                                            ClockIso(now)),
                              getTypeConfig(last'.type))]_vars

----------------------------------------------------------------------------
(* Values around the truncation limits: strings of 499, 501 and 1001
   characters as the status of two tasks (maxValueLength 1000) and of two
   users (maxValueLength 500), each type queried by each of the values. *)

MaxLongClock == 1

LongValue(n) == [i \in 1..n |-> "v"]

LongValues == {LongValue(499), LongValue(501), LongValue(1001)}

LongProfile ==
    [maxClock |-> MaxLongClock,
     creates |-> {Input(s_task, s_a, [status |-> Str(LongValue(1001))]),
                  Input(s_task, s_b, [status |-> Str(LongValue(501))]),
                  Input(s_user, s_a, [status |-> Str(LongValue(501))]),
                  Input(s_user, s_b, [status |-> Str(LongValue(499))])},
     queries |-> {[type |-> T, options |-> WhereEquals("status", Str(v))] : T \in {s_task, s_user}, v \in LongValues}]

NextLong ==
    \/ Tick(LongProfile)
    \/ DoCreate(LongProfile)
    \/ DoQuery(LongProfile)

SpecLong == Init /\ [][NextLong]_vars

\* the equality key written for field F of the stored record R
WrittenEqualityKey(R, F) ==
    equalityIndexKey(RecType(R), F, TruncatedValue(Prop(R, F), getTypeConfig(RecType(R))), RecId(R))

\* C36: truncation is the same at write and at query time: for a query
\* where F = v, the prefix built for v is a prefix of the equality key written
\* for every stored record with F = v, values longer than maxValueLength
\* included, and the query returns the record.
TruncationAgrees ==
    (Queried /\ Len(last.options.where) = 1)
        => \A R \in Stored :
              MatchesFilter(R, last.options.where[1])
                 => /\ WrittenEqualityKey(R, last.options.where[1].field) \in DOMAIN kv
                    /\ StartsWith(WrittenEqualityKey(R, last.options.where[1].field),
                                  equalityIndexPrefix(last.type, last.options.where[1].field,
                                                      last.options.where[1].value))
                    /\ RecId(R) \in ResultIds(last.result)

\* a query by a value longer than the maxValueLength of its type has
\* returned a record with that value
LongValueFound ==
    /\ Queried
    /\ Len(last.options.where) = 1
    /\ Len(JsString(last.options.where[1].value)) > getTypeConfig(last.type).maxValueLength
    /\ \E R \in Stored : MatchesFilter(R, last.options.where[1]) /\ RecId(R) \in ResultIds(last.result)

----------------------------------------------------------------------------
(* Sorted queries over candidates that filters or a search produce: the
   tasks a and c have a due date, the task b has none. *)

MaxSortClock == 1

DataNoDueDate == [status |-> Str(s_a), priority |-> Num(2), title |-> Str(TextNewBug)]

SortedProbes ==
    {[WhereEquals("status", Str(s_a)) EXCEPT !.hasSort = TRUE, !.sort = [field |-> "dueDate", direction |-> "asc"]],
     [WhereEquals("status", Str(s_a)) EXCEPT !.hasSort = TRUE, !.sort = [field |-> "createdAt", direction |-> "desc"]],
     [SortBy("dueDate", "desc") EXCEPT !.q = TextNewBug],
     [SortBy("updatedAt", "asc") EXCEPT !.hasOr = TRUE, !.or = StatusIs(s_x), !.hasAnd = TRUE, !.and = PriorityIs(2)]}

SortProfile ==
    [maxClock |-> MaxSortClock,
     creates |-> {Input(s_task, s_a, DataQa), Input(s_task, s_b, DataNoDueDate), Input(s_task, s_c, DataQc)},
     queries |-> {[type |-> s_task, options |-> o] : o \in SortedProbes}]

NextSort ==
    \/ Tick(SortProfile)
    \/ DoCreate(SortProfile)
    \/ DoQuery(SortProfile)

SpecSort == Init /\ [][NextSort]_vars

\* the candidate ids of the latest query: those of its search or filters
\* with those of its OR filters, before any sorting
CandidateIds(options) ==
    Range(WithOrIds(kv, last.type, options, BaseIds(kv, last.type, options, getTypeConfig(last.type))))

\* C34: sorting only reorders: the ids after applySorting are the candidate
\* ids before it, so a sorted query that has no further page returns every
\* candidate.
SortingOnlyReorders ==
    (/\ Queried
     /\ last.options.hasSort
     /\ last.options.q # <<>> \/ Len(AndFiltersOf(last.options)) > 0)
        => /\ Range(ResolvedIds(last.options)) = CandidateIds(last.options)
           /\ ~last.result.hasMore => ResultIds(last.result) = CandidateIds(last.options)

----------------------------------------------------------------------------
(* Reverse timestamps: the keys of the descending time index for two
   timestamps out of the instants of the model, from the epoch to the
   millisecond after the pivot. *)

TimeProfile ==
    [keys |-> {[type |-> s_task, id |-> s_a, field |-> "createdAt"],
               [type |-> s_task, id |-> s_b, field |-> "dueDate"]},
     timestamps |-> {IsoEpoch, ClockIso(0), ClockIso(1), ClockIso(9), IsoJan2, IsoJan2Short, IsoJan2Half,
                     IsoJan3, IsoBeforePivot, IsoPivot, IsoAfterPivot}]

NextTime == DoReverseKeys(TimeProfile)

SpecTime == Init /\ [][NextTime]_vars

\* the instant of the timestamp is before the pivot 2099-12-31T23:59:59.999Z
BeforePivot(iso) == DigitsLess(DateGetTime(iso).ms, FutureDateMs)

----------------------------------------------------------------------------
(* Prefix scans.  Up to three tasks with one status; listAllKeys scans the
   primary keys, the equality keys of the status and the ascending time keys
   with a cap of 1 to 4 keys, against a store whose pages hold one, two or
   three keys, or one and two in turn; queries by the status, by an OR filter
   and by a search text, with and without a limit. *)

MaxScanKeys == 4

ScanPageSizes == {<<1>>, <<2>>, <<3>>, <<1, 2>>, <<2, 1>>}

DataScan == [status |-> Str(s_a), title |-> Str(TextNew)]

ScanProfile ==
    [creates |-> {Input(s_task, id, DataScan) : id \in {s_a, s_b, s_c}},
     scans |-> {[prefix |-> prefix, maxKeys |-> maxKeys, sizes |-> sizes] :
                   prefix \in {objectPrefix(s_task), equalityIndexPrefix(s_task, "status", Str(s_a)),
                               timeIndexPrefix(s_task, "createdAt")},
                   maxKeys \in 1..MaxScanKeys,
                   sizes \in ScanPageSizes},
     queries |-> {[type |-> s_task, options |-> [o EXCEPT !.limit = L]] :
                     o \in {WhereEquals("status", Str(s_a)),
                            [NoOptions EXCEPT !.hasOr = TRUE, !.or = StatusIs(s_a)],
                            [NoOptions EXCEPT !.q = TextNew]},
                     L \in {0, 1, 2}}]

NextScan ==
    \/ DoCreate(ScanProfile)
    \/ DoListKeys(ScanProfile)
    \/ DoQuery(ScanProfile)

SpecScan == Init /\ [][NextScan]_vars

\* every key of the store under the prefix, in lexicographic order
KeysUnder(prefix) == SortedSeq({k \in DOMAIN kv : StartsWith(k, prefix)})

\* the ids of every key of the store under the prefix
IdsUnder(prefix) == {extractIdFromKey(k) : k \in Range(KeysUnder(prefix))}

\* the ids of every key under the prefix of an equality filter
FilterScan(filter) == IdsUnder(equalityIndexPrefix(last.type, filter.field, filter.value))

\* C38: against a store that honours the list contract, whatever its page
\* size, listAllKeys ends after at most one kv.list per key and returns the
\* keys under the prefix in lexicographic order, without duplicates: all of
\* them when there are at most maxKeys, the first maxKeys otherwise.  The
\* candidates of AND, OR and search resolution are the ids of every key
\* under the prefixes scanned, whatever the limit of the query: the limit
\* only cuts the page.
ScanIsCompleteUpToCap ==
    /\ last.op = "listKeys"
          => /\ last.listed.keys = Slice0(KeysUnder(last.prefix), last.maxKeys)
             /\ last.listed.pages <= IF Len(last.listed.keys) = 0 THEN 1 ELSE Len(last.listed.keys)
    /\ (Queried /\ Len(AndFiltersOf(last.options)) > 0)
          => /\ Range(executeAndFilters(kv, last.type, AndFiltersOf(last.options)))
                   = {id \in FilterScan(AndFiltersOf(last.options)[1]) :
                         \A i \in DOMAIN AndFiltersOf(last.options) : id \in FilterScan(AndFiltersOf(last.options)[i])}
             /\ Len(last.result.records)
                   = Min(QueryLimit(last.options),
                         Cardinality(FilterScan(AndFiltersOf(last.options)[1])))
    /\ (Queried /\ Len(OrFiltersOf(last.options)) > 0)
          => Range(executeOrFilters(kv, last.type, OrFiltersOf(last.options)))
                = UNION {FilterScan(OrFiltersOf(last.options)[i]) : i \in DOMAIN OrFiltersOf(last.options)}
    /\ (Queried /\ last.options.q = TextNew)
          => /\ Range(executeSearch(kv, last.type, last.options.q, getTypeConfig(last.type).searchFields,
                                    getTypeConfig(last.type)))
                   = IdsUnder(invertedIndexPrefix(last.type, "title", TextNew))
             /\ Len(last.result.records)
                   = Min(QueryLimit(last.options),
                         Cardinality(IdsUnder(invertedIndexPrefix(last.type, "title", TextNew))))

\* a scan capped at two keys has read three pages' worth of keys one by one
\* and stopped at the cap with a key left over
ScanStoppedAtCap ==
    /\ last.op = "listKeys"
    /\ last.maxKeys = 2
    /\ last.listed.pages = 2
    /\ Len(KeysUnder(last.prefix)) = 3
    /\ Len(last.listed.keys) = 2

----------------------------------------------------------------------------
(* Tokenizing.  Every text of up to three characters over two letters, an
   upper-case letter, a digit and a separator; a text that spells one token
   twice; texts with a run of 50 and of 51 characters; the default stopwords
   and a list of one's own. *)

MaxTextLength == 3

TextChars == {"a", "n", "T", "1", "-"}

LongRun(n) == [i \in 1..n |-> "a"]

TokenProfile ==
    [texts |-> UNION {[1..n -> TextChars] : n \in 0..MaxTextLength}
                  \cup {<<"1", "T", " ", "n", "a", ",", " ", "1", "t", "!">>,
                        LongRun(MaxTokenLength), LongRun(MaxTokenLength + 1),
                        LongRun(MaxTokenLength + 1) \o <<"-", "a", "n", " ", "a", " ", "1", "T">>},
     stopwordLists |-> {DEFAULT_STOPWORDS, {<<"1", "t">>, <<"n", "a">>}}]

NextToken == DoTokenize(TokenProfile)

SpecToken == Init /\ [][NextToken]_vars

\* s[i..j] is a maximal run of characters [a-z0-9] of s
IsMaximalRun(s, i, j) ==
    /\ i <= j
    /\ \A k \in i..j : IsAlnum(s[k])
    /\ i = 1 \/ ~IsAlnum(s[i - 1])
    /\ j = Len(s) \/ ~IsAlnum(s[j + 1])

MaximalRuns(s) == {SubSeq(s, i, j) : <<i, j>> \in {p \in (1..Len(s)) \X (1..Len(s)) : IsMaximalRun(s, p[1], p[2])}}

\* C39: tokenize returns exactly the maximal runs of characters [a-z0-9] of
\* the lowercased text that have 2 to 50 characters and are not stopwords,
\* each once; the empty text gives the empty set.
TokensAreKeptRuns ==
    last.op = "tokenize"
        => /\ last.tokens = {r \in MaximalRuns(toLowerCase(last.text)) :
                                /\ Len(r) >= 2
                                /\ Len(r) <= 50
                                /\ r \notin last.stopwords}
           /\ last.text = <<>> => last.tokens = {}

\* a text with a run of 51 characters, a stopword, a run of one character
\* and a run of two gave the run of two as its only token
TokenizedAroundTheBounds ==
    /\ last.op = "tokenize"
    /\ Len(last.text) > 51
    /\ Cardinality(MaximalRuns(toLowerCase(last.text))) = 4
    /\ last.tokens = {<<"1", "t">>}

====
